---- MODULE Spec2Model ----
(***************************************************************************)
(* Model of the FEEL-subset expression evaluator of                        *)
(* fake-backends/camunda_worker.py: _evaluate_result_expression,           *)
(* _evaluate_feel_fallback, _evaluate_condition, _parse_feel_dict_literal, *)
(* _evaluate_feel_value and _evaluate_field_access.                        *)
(*                                                                         *)
(* Texts are TLA+ strings, read character by character with SubSeq.        *)
(* Python values are tagged records:                                       *)
(*   [t |-> "null"]                      None                              *)
(*   [t |-> "bool",  v |-> TRUE]         True / False                      *)
(*   [t |-> "int",   v |-> 3]            int                               *)
(*   [t |-> "float", v |-> "1.5"]        float, kept as its str() text     *)
(*   [t |-> "str",   v |-> "abc"]        str                               *)
(*   [t |-> "list",  v |-> <<...>>]      list                              *)
(*   [t |-> "dict",  k |-> <<...>>, v |-> <<...>>]  dict, insertion order  *)
(*   [t |-> "method", of |-> type, v |-> name]  a bound method / function  *)
(*   [t |-> "raise", v |-> kind]         an exception in flight            *)
(***************************************************************************)
EXTENDS Integers, Sequences, FiniteSets, TLC

VARIABLES op, text, response, result, jobs, locals

vars == <<op, text, response, result, jobs, locals>>

-----------------------------------------------------------------------------
(* Python values *)

None == [t |-> "null"]
VBool(b) == [t |-> "bool", v |-> b]
VInt(n) == [t |-> "int", v |-> n]
VFloat(s) == [t |-> "float", v |-> s]
VStr(s) == [t |-> "str", v |-> s]
VList(seq) == [t |-> "list", v |-> seq]
VDict(keys, vals) == [t |-> "dict", k |-> keys, v |-> vals]
VMethod(type, name) == [t |-> "method", of |-> type, v |-> name]
Raise(kind) == [t |-> "raise", v |-> kind]

IsRaise(x) == x.t = "raise"

\* key in d
HasKey(d, key) == \E n \in 1..Len(d.k) : d.k[n] = key

\* dict.get(key): the value stored under a string key, None when absent
DictGet_absent(d, key) == None

DictGet(d, key) ==
    IF HasKey(d, key)
    THEN d.v[CHOOSE n \in 1..Len(d.k) : d.k[n] = key]
    ELSE None

\* result[key] = value: overwrite in place or append in insertion order
DictSet(d, key, value) ==
    IF HasKey(d, key)
    THEN VDict(d.k, [n \in 1..Len(d.k) |-> IF d.k[n] = key THEN value ELSE d.v[n]])
    ELSE VDict(Append(d.k, key), Append(d.v, value))

-----------------------------------------------------------------------------
(* Characters and str methods.  Scans over a text are written without     *)
(* deep recursion: by CHOOSE of the first position, or by running a step   *)
(* operator over the halves of the index range.                            *)

Ch(s, i) == SubSeq(s, i, i)
Sub(s, i, j) == IF i > j THEN "" ELSE SubSeq(s, i, j)
From(s, i) == Sub(s, i, Len(s))

LowerLetters == "abcdefghijklmnopqrstuvwxyz"
UpperLetters == "ABCDEFGHIJKLMNOPQRSTUVWXYZ"
DigitChars == "0123456789"

CharsOf(chars) == {Ch(chars, n) : n \in 1..Len(chars)}
IndexIn(c, chars) == CHOOSE n \in 1..Len(chars) : Ch(chars, n) = c

\* [0-9], [a-zA-Z_] and [a-zA-Z0-9_] (\w on ASCII text)
DigitSet == CharsOf(DigitChars)
IdentStartSet == CharsOf(LowerLetters) \cup CharsOf(UpperLetters) \cup {"_"}
WordSet == IdentStartSet \cup DigitSet
\* \s of the re module and the characters str.strip() removes
SpaceChars == {" ", "\t", "\n", "\r", "\f"}

RECURSIVE Lower(_)
\* str.lower()
Lower(s) ==
    IF Len(s) = 0 THEN ""
    ELSE IF Len(s) = 1
    THEN (IF s \in CharsOf(UpperLetters) THEN Ch(LowerLetters, IndexIn(s, UpperLetters)) ELSE s)
    ELSE Lower(Sub(s, 1, Len(s) \div 2)) \o Lower(From(s, Len(s) \div 2 + 1))

StartsWith(s, prefix) == Len(s) >= Len(prefix) /\ Sub(s, 1, Len(prefix)) = prefix
EndsWith(s, suffix) == Len(s) >= Len(suffix) /\ Sub(s, Len(s) - Len(suffix) + 1, Len(s)) = suffix
\* s[i:] starts with word (1-based i)
At(s, i, word) == i >= 1 /\ i + Len(word) - 1 <= Len(s) /\ Sub(s, i, i + Len(word) - 1) = word
AtNoCase(s, i, word) == i >= 1 /\ i + Len(word) - 1 <= Len(s) /\ Lower(Sub(s, i, i + Len(word) - 1)) = word
Contains(s, word) == \E i \in 1..Len(s) : At(s, i, word)

SetMin(S) == CHOOSE x \in S : \A y \in S : x <= y

\* first position >= i whose character is not in the class, Len(s)+1 if none
SkipWhile(s, i, chars) ==
    IF i > Len(s) THEN i
    ELSE CHOOSE j \in i..(Len(s) + 1) :
            /\ j > Len(s) \/ Ch(s, j) \notin chars
            /\ \A m \in i..(j - 1) : Ch(s, m) \in chars

\* str.strip(chars): from the first to the last character not in chars
StripChars(s, chars) ==
    Sub(s, SkipWhile(s, 1, chars),
        CHOOSE i \in 0..Len(s) :
            /\ i < 1 \/ Ch(s, i) \notin chars
            /\ \A m \in (i + 1)..Len(s) : Ch(s, m) \in chars)

\* str.strip() and str.lstrip(chars)
Strip(s) == StripChars(s, SpaceChars)
LStripChars(s, chars) == From(s, SkipWhile(s, 1, chars))

\* str.find(c, i): 1-based position of the first c at or after i, 0 if none
Find(s, c, i) ==
    IF \E n \in i..Len(s) : Ch(s, n) = c
    THEN CHOOSE n \in i..Len(s) : Ch(s, n) = c /\ \A m \in i..(n - 1) : Ch(s, m) # c
    ELSE 0

\* end (exclusive) of the longest run of \w characters starting at i
WordEnd(s, i) == SkipWhile(s, i, WordSet)

\* re.match(r'([a-zA-Z_][a-zA-Z0-9_]*)', s[i:]): the identifier, "" if no match
MatchIdent(s, i) ==
    IF i <= Len(s) /\ Ch(s, i) \in IdentStartSet THEN Sub(s, i, WordEnd(s, i) - 1) ELSE ""

-----------------------------------------------------------------------------
(* int(text) and str(int) *)

\* int(s) succeeds (s carries no surrounding whitespace here): an optional
\* sign, then digits with single underscores between them
IsIntText(s) ==
    LET b == IF s # "" /\ Ch(s, 1) \in {"+", "-"} THEN 2 ELSE 1
    IN  /\ b <= Len(s)
        /\ Ch(s, b) \in DigitSet /\ Ch(s, Len(s)) \in DigitSet
        /\ \A n \in b..Len(s) :
              \/ Ch(s, n) \in DigitSet
              \/ Ch(s, n) = "_" /\ Ch(s, n - 1) \in DigitSet /\ Ch(s, n + 1) \in DigitSet

RECURSIVE DigitsValue(_, _, _)
DigitsValue(s, i, acc) ==
    IF i > Len(s) THEN acc
    ELSE IF Ch(s, i) = "_" THEN DigitsValue(s, i + 1, acc)
    ELSE DigitsValue(s, i + 1, 10 * acc + (IndexIn(Ch(s, i), DigitChars) - 1))

IntValue(s) ==
    IF Ch(s, 1) = "-" THEN 0 - DigitsValue(s, 2, 0)
    ELSE IF Ch(s, 1) = "+" THEN DigitsValue(s, 2, 0)
    ELSE DigitsValue(s, 1, 0)

RECURSIVE NatText(_)
NatText(n) == IF n < 10 THEN Ch(DigitChars, n + 1)
              ELSE NatText(n \div 10) \o Ch(DigitChars, (n % 10) + 1)

IntText(n) == IF n < 0 THEN "-" \o NatText(0 - n) ELSE NatText(n)

-----------------------------------------------------------------------------
(* str(x) and repr(x) *)

RECURSIVE ReprBody(_, _)
\* the escaped interior of repr(s) for a str delimited by quote character q
ReprBody(s, q) ==
    IF Len(s) = 0 THEN ""
    ELSE IF Len(s) = 1
    THEN CASE s = "\\" -> "\\\\"
           [] s = "\n" -> "\\n"
           [] s = "\t" -> "\\t"
           [] s = "\r" -> "\\r"
           [] s = q -> "\\" \o q
           [] OTHER -> s
    ELSE ReprBody(Sub(s, 1, Len(s) \div 2), q) \o ReprBody(From(s, Len(s) \div 2 + 1), q)

StrRepr(s) ==
    IF Contains(s, "'") /\ ~Contains(s, "\"")
    THEN "\"" \o ReprBody(s, "\"") \o "\""
    ELSE "'" \o ReprBody(s, "'") \o "'"

RECURSIVE PyRepr(_)
RECURSIVE JoinRepr(_, _, _)

\* ", ".join of repr(e) for the elements vals[n..] of a list, of
\* repr(key) + ": " + repr(e) for the items of a dict (keys is << >> for a list)
JoinRepr(keys, vals, n) ==
    IF n > Len(vals) THEN ""
    ELSE (IF keys = <<>> THEN "" ELSE StrRepr(keys[n]) \o ": ") \o PyRepr(vals[n])
         \o (IF n < Len(vals) THEN ", " ELSE "") \o JoinRepr(keys, vals, n + 1)

\* repr(x); the address a method's repr carries is left out
PyRepr(x) ==
    CASE x.t = "null" -> "None"
      [] x.t = "bool" -> IF x.v THEN "True" ELSE "False"
      [] x.t = "int" -> IntText(x.v)
      [] x.t = "float" -> x.v
      [] x.t = "str" -> StrRepr(x.v)
      [] x.t = "list" -> "[" \o JoinRepr(<<>>, x.v, 1) \o "]"
      [] x.t = "dict" -> "{" \o JoinRepr(x.k, x.v, 1) \o "}"
      [] x.t = "method" -> "<built-in method " \o x.v \o " of " \o x.of \o " object>"

\* str(x)
PyStr(x) == IF x.t = "str" THEN x.v ELSE PyRepr(x)

\* len(x) if hasattr(x, '__len__') else 0
PyLenOrZero(x) ==
    CASE x.t = "str" -> Len(x.v)
      [] x.t = "list" -> Len(x.v)
      [] x.t = "dict" -> Len(x.k)
      [] OTHER -> 0

-----------------------------------------------------------------------------
(* Attributes of the built-in types, as hasattr/getattr see them.  The      *)
(* double-underscore attributes every object carries are left out.          *)

\* the methods of a value of type t
Methods(t) ==
    CASE t = "list" -> {"append", "clear", "copy", "count", "extend", "index", "insert",
                        "pop", "remove", "reverse", "sort"}
      [] t = "str" -> {"capitalize", "casefold", "center", "count", "encode", "endswith",
                       "expandtabs", "find", "format", "format_map", "index", "isalnum",
                       "isalpha", "isascii", "isdecimal", "isdigit", "isidentifier",
                       "islower", "isnumeric", "isprintable", "isspace", "istitle",
                       "isupper", "join", "ljust", "lower", "lstrip", "maketrans",
                       "partition", "removeprefix", "removesuffix", "replace", "rfind",
                       "rindex", "rjust", "rpartition", "rsplit", "rstrip", "split",
                       "splitlines", "startswith", "strip", "swapcase", "title",
                       "translate", "upper", "zfill"}
      [] t = "dict" -> {"clear", "copy", "fromkeys", "get", "items", "keys", "pop",
                        "popitem", "setdefault", "update", "values"}
      [] t \in {"int", "bool"} -> {"as_integer_ratio", "bit_count", "bit_length",
                                   "conjugate", "from_bytes", "to_bytes"}
      [] t = "float" -> {"as_integer_ratio", "conjugate", "fromhex", "hex", "is_integer"}
      [] OTHER -> {}

\* the data attributes of a number
NumberFields(t) ==
    CASE t \in {"int", "bool"} -> {"real", "imag", "numerator", "denominator"}
      [] t = "float" -> {"real", "imag"}
      [] OTHER -> {}

HasAttr(x, name) == name \in Methods(x.t) \cup NumberFields(x.t)

GetAttr(x, name) ==
    IF name \notin NumberFields(x.t) THEN VMethod(x.t, name)
    ELSE IF x.t = "float" THEN (IF name = "real" THEN x ELSE VFloat("0.0"))
    ELSE CASE name \in {"real", "numerator"} ->
                 VInt(IF x.t = "bool" THEN (IF x.v THEN 1 ELSE 0) ELSE x.v)
           [] name = "imag" -> VInt(0)
           [] name = "denominator" -> VInt(1)

-----------------------------------------------------------------------------
(* _evaluate_field_access *)

\* line 574: FEEL uses 1-based indexing; convert to 0-based for Python
py_index_zero_based(index) == index

py_index(index) == index - 1

\* lines 572-590: the subscript is an int.  A list is indexed after the
\* conversion, within bounds only; a str goes through the else branch of
\* line 585, result[index] if index < len(result) else None; a dict of the
\* response has str keys, so .get(index) finds none
IntSubscript(cur, index) ==
    CASE cur.t = "list" ->
            IF 0 <= py_index(index) /\ py_index(index) < Len(cur.v)
            THEN cur.v[py_index(index) + 1] ELSE None
      [] cur.t = "str" /\ index >= Len(cur.v) -> None
      [] cur.t = "str" /\ index >= 0 -> VStr(Ch(cur.v, index + 1))
      [] cur.t = "str" /\ index >= 0 - Len(cur.v) -> VStr(Ch(cur.v, Len(cur.v) + index + 1))
      [] cur.t = "str" -> Raise("IndexError")
      [] OTHER -> None

\* lines 566-597: a subscript step on the current value
Subscript(cur, index_str) ==
    CASE cur.t = "null" -> None
      [] IsIntText(index_str) -> IntSubscript(cur, IntValue(index_str))
      [] cur.t = "dict" -> DictGet(cur, index_str)
      [] OTHER -> None

\* lines 541-553: a field step on the current value
FieldStep_null_raises(cur, field_name) ==
    CASE cur.t = "null" -> Raise("AttributeError")
      [] cur.t = "dict" -> DictGet(cur, field_name)
      [] HasAttr(cur, field_name) -> GetAttr(cur, field_name)
      [] OTHER -> None

FieldStep(cur, field_name) ==
    CASE cur.t = "null" -> None
      [] cur.t = "dict" -> DictGet(cur, field_name)
      [] HasAttr(cur, field_name) -> GetAttr(cur, field_name)
      [] OTHER -> None

RECURSIVE AccessChain(_, _, _)
\* the while loop of lines 525-603 from position i (1-based) of rest.  A
\* step that returns None ends the loop; here the loop goes on with None,
\* which every later step and the final return leave as it is.  An
\* exception (cur is a raise) ends it at once.
AccessChain(rest, i, cur) ==
    LET field_name == MatchIdent(rest, i + 1)
        bracket_end == Find(rest, "]", i + 1)
    IN  IF i > Len(rest) \/ IsRaise(cur) THEN cur
        ELSE CASE Ch(rest, i) = "." /\ field_name = "" -> None
               [] Ch(rest, i) = "." ->
                     AccessChain(rest, i + 1 + Len(field_name), FieldStep(cur, field_name))
               [] Ch(rest, i) = "[" /\ bracket_end = 0 -> None
               [] Ch(rest, i) = "[" ->
                     AccessChain(rest, bracket_end + 1,
                                 Subscript(cur, Strip(Sub(rest, i + 1, bracket_end - 1))))
               [] Ch(rest, i) \in {" ", "\t"} -> AccessChain(rest, i + 1, cur)
               [] OTHER -> cur

\* _evaluate_field_access(field_str, eval_context), eval_context['response'] = resp
\* (lines 519-522: the text after the 8 characters of 'response' is walked)
_evaluate_field_access(field_str, resp) ==
    IF ~StartsWith(Strip(field_str), "response") THEN None
    ELSE AccessChain(From(Strip(field_str), 9), 1, resp)

-----------------------------------------------------------------------------
(* Python's eval(text, {"__builtins__": {}}, eval_context), for the         *)
(* expression subset: names, None/True/False, decimal integers, quoted      *)
(* strings, list displays, parentheses, calls, subscripts, attributes,      *)
(* unary + and -, binary + - *, comparisons, not/and/or, and the list and  *)
(* dict methods of MethodCall.  Anything else is answered by                *)
(* Raise("Unsupported"); every caller treats all exceptions alike.          *)
(* Values are held by value: an expression that reads a list or dict of the *)
(* response and changes that same object afterwards lies outside the        *)
(* subset, inside one eval (Stale) and across the entries of an object.     *)

PyKeywords == {"None", "True", "False", "or", "and", "not"}
\* keywords and soft keywords the subset does not evaluate
PyOtherKeywords == {"if", "else", "in", "is", "lambda", "for", "await", "yield",
                    "async", "def", "class", "return", "import", "from", "as",
                    "while", "with", "try", "except", "finally", "raise", "del",
                    "pass", "break", "continue", "global", "nonlocal", "assert",
                    "elif"}
\* the operators and delimiters of the subset
PyOps == {"==", "!=", "<=", ">=", "<", ">", "=", "+", "-", "*", "(", ")", "[", "]", ",", "."}

\* one character of a string literal opened by q; st = [done, ok, v, next, esc]
StringStep(s, j, q, st) ==
    LET c == Ch(s, j)
        fail(kind) == [done |-> TRUE, ok |-> FALSE, v |-> kind, next |-> j, esc |-> FALSE]
    IN  CASE st.done -> st
          [] st.esc /\ c \in {"\\", "'", "\""} -> [st EXCEPT !.v = @ \o c, !.esc = FALSE]
          [] st.esc /\ c = "n" -> [st EXCEPT !.v = @ \o "\n", !.esc = FALSE]
          [] st.esc /\ c = "t" -> [st EXCEPT !.v = @ \o "\t", !.esc = FALSE]
          [] st.esc /\ c = "r" -> [st EXCEPT !.v = @ \o "\r", !.esc = FALSE]
          [] st.esc -> fail("Unsupported")
          [] c = q -> [st EXCEPT !.done = TRUE, !.ok = TRUE, !.next = j + 1]
          [] c = "\n" -> fail("SyntaxError")
          [] c = "\\" -> [st EXCEPT !.esc = TRUE]
          [] OTHER -> [st EXCEPT !.v = @ \o c]

RECURSIVE StringRun(_, _, _, _, _)
StringRun(s, i, j, q, st) ==
    IF i < j
    THEN LET left == StringRun(s, i, (i + j) \div 2, q, st)
         IN  IF left.done THEN left ELSE StringRun(s, (i + j) \div 2 + 1, j, q, left)
    ELSE IF i = j THEN StringStep(s, i, q, st) ELSE st

\* the literal whose opening quote q is at i - 1: [ok, v, next]; a literal
\* the text does not close is a SyntaxError
ScanString(s, i, q) ==
    LET st == StringRun(s, i, Len(s), q,
                        [done |-> FALSE, ok |-> FALSE, v |-> "", next |-> i, esc |-> FALSE])
    IN  IF st.done THEN st ELSE [st EXCEPT !.ok = FALSE, !.v = "SyntaxError"]

\* the token that starts at position i; st = [err, toks, depth, skip], a
\* token is [k |-> kind, v |-> text]
TokenStep(s, i, st) ==
    LET c == Ch(s, i)
        two == Sub(s, i, i + 1)
        fail(kind) == [st EXCEPT !.err = kind]
        emit(kind, value, next) ==
            [st EXCEPT !.toks = Append(@, [k |-> kind, v |-> value]), !.skip = next]
        \* the name or keyword w, which ends before position e
        word(e, w) ==
            IF e <= Len(s) /\ Ch(s, e) \in {"'", "\""} THEN fail("Unsupported")
            ELSE IF w \in PyOtherKeywords THEN fail("Unsupported")
            ELSE emit(IF w \in PyKeywords THEN "kw" ELSE "name", w, e)
        \* the decimal integer w, which ends before position d
        number(d, w) ==
            IF d <= Len(s) /\ Ch(s, d) \in WordSet \cup {"."} THEN fail("Unsupported")
            ELSE IF Len(w) > 1 /\ Ch(w, 1) = "0" /\ IntValue(w) # 0 THEN fail("SyntaxError")
            ELSE emit("int", w, d)
        string(lit) == IF lit.ok THEN emit("str", lit.v, lit.next) ELSE fail(lit.v)
    IN  CASE st.err # "" \/ i < st.skip -> st
          [] c \in {" ", "\t", "\f"} -> st
          \* inside brackets a line break is blank; outside it ends the input
          [] c \in {"\n", "\r"} /\ (st.depth > 0 \/ st.toks = <<>>) -> st
          [] c \in {"\n", "\r"} /\ Strip(From(s, i)) = "" -> [st EXCEPT !.skip = Len(s) + 1]
          [] c \in {"\n", "\r"} -> fail("SyntaxError")
          [] c \in IdentStartSet -> word(WordEnd(s, i), Sub(s, i, WordEnd(s, i) - 1))
          [] c \in DigitSet -> number(SkipWhile(s, i, DigitSet),
                                      Sub(s, i, SkipWhile(s, i, DigitSet) - 1))
          [] c \in {"'", "\""} /\ At(s, i, c \o c \o c) -> fail("Unsupported")
          [] c \in {"'", "\""} -> string(ScanString(s, i + 1, c))
          [] i < Len(s) /\ two \in PyOps -> emit("op", two, i + 2)
          [] i < Len(s) /\ two \in {"**", "<<", ">>", "<>"} -> fail("Unsupported")
          [] c = "." /\ i < Len(s) /\ Ch(s, i + 1) \in DigitSet -> fail("Unsupported")
          [] c \in {"(", "["} -> [emit("op", c, i + 1) EXCEPT !.depth = @ + 1]
          [] c \in {")", "]"} /\ st.depth > 0 -> [emit("op", c, i + 1) EXCEPT !.depth = @ - 1]
          [] c \in PyOps -> emit("op", c, i + 1)
          [] c \in {"$", "?", "!"} -> fail("SyntaxError")
          [] OTHER -> fail("Unsupported")

RECURSIVE TokenRun(_, _, _, _)
TokenRun(s, i, j, st) ==
    IF i < j
    THEN LET left == TokenRun(s, i, (i + j) \div 2, st)
         IN  IF left.err # "" THEN left ELSE TokenRun(s, (i + j) \div 2 + 1, j, left)
    ELSE IF i = j THEN TokenStep(s, i, st) ELSE st

\* Parser results: [ok, node, p]; p is the position of the next token.  A
\* failed parse carries the exception as a constant node
POk(node, p) == [ok |-> TRUE, node |-> node, p |-> p]
PErr(kind) == [ok |-> FALSE, node |-> [n |-> "const", v |-> Raise(kind)], p |-> 0]

\* the token at p is the operator or keyword v
IsOp(toks, p, v) == p <= Len(toks) /\ toks[p].k \in {"op", "kw"} /\ toks[p].v = v

\* the precedence level of a binary operator of the Python grammar:
\* disjunction, conjunction, comparison, sum or term; "" for any other token
Level(v) ==
    CASE v \in {"or", "and"} -> v
      [] v \in {"==", "!=", "<", ">", "<=", ">="} -> "cmp"
      [] v \in {"+", "-"} -> "sum"
      [] v = "*" -> "term"
      [] OTHER -> ""

\* how strongly the operators of a level bind; not binds between and and
\* the comparisons, the unary + and - more strongly than any binary operator
Strength(level) ==
    CASE level = "or" -> 1
      [] level = "and" -> 2
      [] level = "not" -> 3
      [] level = "cmp" -> 4
      [] level = "sum" -> 5
      [] level = "term" -> 6
      [] level = "unary" -> 7
      [] OTHER -> 0

\* the node of a prefix operator o applied to the operand r, or of a trailer
\* with argument r attached to the operand e
Built(kind, o, e, r) ==
    IF r.ok THEN POk([n |-> kind, o |-> o, e |-> e, a |-> r.node], r.p) ELSE r

\* the closing token after a parsed expression; a comma there makes a tuple
Closed(toks, r, close) ==
    IF ~r.ok THEN r
    ELSE IF IsOp(toks, r.p, close) THEN POk(r.node, r.p + 1)
    ELSE IF IsOp(toks, r.p, ",") THEN PErr("Unsupported")
    ELSE PErr("SyntaxError")

RECURSIVE ParseExpr(_, _, _)
RECURSIVE Climb(_, _, _, _)
RECURSIVE ParsePrefix(_, _, _)
RECURSIVE Trailers(_, _)
RECURSIVE ParseAtom(_, _)
RECURSIVE ParseItems(_, _, _, _)
RECURSIVE StringTokens(_, _, _)

\* the node of the operator o of a level between the operand left and the
\* operand r parsed after it; operators of one level in a row make one node
\* (open is the level of left when the operator before it made it)
Joined(level, o, open, left, r) ==
    IF ~r.ok THEN r
    ELSE IF open = level
    THEN POk([n |-> level, ops |-> Append(left.ops, o), es |-> Append(left.es, r.node)], r.p)
    ELSE POk([n |-> level, ops |-> <<o>>, es |-> <<left, r.node>>], r.p)

\* an expression whose binary operators bind with strength min at least
ParseExpr(toks, p, min) == Climb(toks, min, "", ParsePrefix(toks, p, min))

\* after the operand r: a further binary operator that binds strongly
\* enough, with an operand of the operators that bind more strongly
Climb(toks, min, open, r) ==
    IF ~r.ok THEN r
    ELSE IF r.p > Len(toks) \/ toks[r.p].k \notin {"kw", "op"}
            \/ Strength(Level(toks[r.p].v)) < min
    THEN r
    ELSE Climb(toks, min, Level(toks[r.p].v),
               Joined(Level(toks[r.p].v), toks[r.p].v, open, r.node,
                      ParseExpr(toks, r.p + 1, Strength(Level(toks[r.p].v)) + 1)))

\* not, unary + and -, or an atom with its trailers; not cannot be the
\* operand of an operator that binds more strongly
ParsePrefix(toks, p, min) ==
    IF IsOp(toks, p, "not")
    THEN (IF min > Strength("not") THEN PErr("SyntaxError")
          ELSE Built("not", "not", None, ParseExpr(toks, p + 1, Strength("not"))))
    ELSE IF IsOp(toks, p, "+") \/ IsOp(toks, p, "-")
    THEN Built("unary", toks[p].v, None, ParsePrefix(toks, p + 1, Strength("unary")))
    ELSE Trailers(toks, ParseAtom(toks, p))

\* comma-separated expressions up to the closing token (a trailing comma
\* allowed); starred and keyword arguments are outside the subset
ParseItems(toks, p, close, acc) ==
    IF IsOp(toks, p, close) THEN POk([n |-> "list", es |-> acc], p + 1)
    ELSE IF IsOp(toks, p, "*") THEN PErr("Unsupported")
    ELSE LET e == ParseExpr(toks, p, 1)
         IN  IF ~e.ok THEN e
             ELSE IF IsOp(toks, e.p, ",") THEN ParseItems(toks, e.p + 1, close, Append(acc, e.node))
             ELSE IF IsOp(toks, e.p, close)
                  THEN POk([n |-> "list", es |-> Append(acc, e.node)], e.p + 1)
             ELSE IF IsOp(toks, e.p, "=") /\ close = ")" THEN PErr("Unsupported")
             ELSE PErr("SyntaxError")

\* calls, subscripts and attribute references after the operand r
Trailers(toks, r) ==
    IF ~r.ok THEN r
    ELSE IF IsOp(toks, r.p, "(")
    THEN Trailers(toks, Built("call", "", r.node, ParseItems(toks, r.p + 1, ")", <<>>)))
    ELSE IF IsOp(toks, r.p, "[")
    THEN Trailers(toks, Built("subscript", "", r.node,
                              Closed(toks, ParseExpr(toks, r.p + 1, 1), "]")))
    ELSE IF IsOp(toks, r.p, ".")
    THEN (IF r.p + 1 <= Len(toks) /\ toks[r.p + 1].k = "name"
          THEN Trailers(toks, POk([n |-> "attr", e |-> r.node, id |-> toks[r.p + 1].v], r.p + 2))
          ELSE PErr("SyntaxError"))
    ELSE r

\* adjacent string literals are one constant
StringTokens(toks, p, acc) ==
    IF p <= Len(toks) /\ toks[p].k = "str" THEN StringTokens(toks, p + 1, acc \o toks[p].v)
    ELSE POk([n |-> "const", v |-> VStr(acc)], p)

ParseAtom(toks, p) ==
    IF p > Len(toks) THEN PErr("SyntaxError")
    ELSE CASE toks[p].k = "name" -> POk([n |-> "name", id |-> toks[p].v], p + 1)
           [] toks[p].k = "int" -> POk([n |-> "const", v |-> VInt(IntValue(toks[p].v))], p + 1)
           [] toks[p].k = "str" -> StringTokens(toks, p, "")
           [] IsOp(toks, p, "None") -> POk([n |-> "const", v |-> None], p + 1)
           [] IsOp(toks, p, "True") -> POk([n |-> "const", v |-> VBool(TRUE)], p + 1)
           [] IsOp(toks, p, "False") -> POk([n |-> "const", v |-> VBool(FALSE)], p + 1)
           [] IsOp(toks, p, "(") /\ IsOp(toks, p + 1, ")") -> PErr("Unsupported")
           [] IsOp(toks, p, "(") -> Closed(toks, ParseExpr(toks, p + 1, 1), ")")
           [] IsOp(toks, p, "[") -> ParseItems(toks, p + 1, "]", <<>>)
           [] OTHER -> PErr("SyntaxError")

\* the parsed expression r has to end the token sequence; a comma there
\* makes a tuple
Whole(toks, r) ==
    IF ~r.ok \/ r.p = Len(toks) + 1 THEN r
    ELSE IF IsOp(toks, r.p, ",") THEN PErr("Unsupported")
    ELSE PErr("SyntaxError")

-----------------------------------------------------------------------------
(* Evaluation of the parsed expression *)

IsNum(x) == x.t \in {"int", "bool"}
Num(x) == IF x.t = "bool" THEN (IF x.v THEN 1 ELSE 0) ELSE x.v

\* bool(x)
Truthy(x) ==
    CASE x.t = "null" -> FALSE
      [] x.t = "bool" -> x.v
      [] x.t = "int" -> x.v # 0
      [] x.t = "float" -> x.v \notin {"0.0", "-0.0"}
      [] x.t = "str" -> x.v # ""
      [] x.t = "list" -> x.v # <<>>
      [] x.t = "dict" -> x.k # <<>>
      [] OTHER -> TRUE

RECURSIVE PyEq(_, _)
\* a == b
PyEq(a, b) ==
    IF IsNum(a) /\ IsNum(b) THEN Num(a) = Num(b)
    ELSE IF a.t = "float" /\ IsNum(b) THEN a.v = IntText(Num(b)) \o ".0"
    ELSE IF IsNum(a) /\ b.t = "float" THEN b.v = IntText(Num(a)) \o ".0"
    ELSE IF a.t # b.t THEN FALSE
    ELSE CASE a.t = "null" -> TRUE
           [] a.t = "list" -> Len(a.v) = Len(b.v) /\ \A n \in 1..Len(a.v) : PyEq(a.v[n], b.v[n])
           [] a.t = "dict" -> /\ Len(a.k) = Len(b.k)
                              /\ \A n \in 1..Len(a.k) :
                                    /\ HasKey(b, a.k[n])
                                    /\ PyEq(a.v[n], DictGet(b, a.k[n]))
           [] a.t = "method" -> a.of = b.of /\ a.v = b.v
           [] OTHER -> a.v = b.v

\* a op b for a comparison operator
Compare(o, a, b) ==
    IF o \in {"==", "!="} THEN VBool(PyEq(a, b) = (o = "=="))
    ELSE IF IsNum(a) /\ IsNum(b)
    THEN VBool(CASE o = "<" -> Num(a) < Num(b)
                 [] o = ">" -> Num(a) > Num(b)
                 [] o = "<=" -> Num(a) <= Num(b)
                 [] o = ">=" -> Num(a) >= Num(b))
    ELSE IF a.t = b.t /\ a.t \in {"str", "list", "float"} THEN Raise("Unsupported")
    ELSE IF {a.t, b.t} \subseteq {"int", "bool", "float"} THEN Raise("Unsupported")
    ELSE Raise("TypeError")

\* a + b, a - b, a * b; the repetition of a str or list is outside the subset
BinOp(o, a, b) ==
    IF IsNum(a) /\ IsNum(b)
    THEN VInt(CASE o = "+" -> Num(a) + Num(b)
                [] o = "-" -> Num(a) - Num(b)
                [] o = "*" -> Num(a) * Num(b))
    ELSE IF {a.t, b.t} \subseteq {"int", "bool", "float"} THEN Raise("Unsupported")
    ELSE IF o = "+" /\ a.t = b.t /\ a.t \in {"str", "list"} THEN [t |-> a.t, v |-> a.v \o b.v]
    ELSE IF o = "*" /\ (IsNum(a) \/ IsNum(b)) /\ {a.t, b.t} \cap {"str", "list"} # {}
    THEN Raise("Unsupported")
    ELSE Raise("TypeError")

\* x[i] of Python: 0-based, negative indices count from the end
PySubscript(x, i) ==
    IF x.t \in {"list", "str"}
    THEN IF ~IsNum(i) THEN Raise("TypeError")
         ELSE LET len == Len(x.v)
                  n == IF Num(i) < 0 THEN Num(i) + len ELSE Num(i)
              IN  IF n < 0 \/ n >= len THEN Raise("IndexError")
                  ELSE IF x.t = "list" THEN x.v[n + 1] ELSE VStr(Ch(x.v, n + 1))
    ELSE IF x.t = "dict"
    THEN IF i.t \in {"list", "dict"} THEN Raise("TypeError")
         ELSE IF i.t = "str" /\ HasKey(x, i.v) THEN DictGet(x, i.v)
         ELSE Raise("KeyError")
    ELSE Raise("TypeError")

\* What evaluating an expression leaves: its value v (or the exception
\* raised) and the response r as it is afterwards.  The response is the one
\* mutable object an expression can reach, so a value that is a part of it is
\* marked as a reference (ref) with the steps that lead to it from the root
\* (at); a bound method carries the place of the object it is bound to.
Out(v, r) == [v |-> v, ref |-> FALSE, at |-> <<>>, r |-> r]

\* the step from container x to x[i]: a key of a dict, a position of a list
At1(x, i) ==
    IF x.t = "dict" THEN [d |-> TRUE, k |-> i.v, n |-> 0]
    ELSE [d |-> FALSE, k |-> "", n |-> (IF Num(i) < 0 THEN Num(i) + Len(x.v) ELSE Num(i)) + 1]

RECURSIVE GetAt(_, _, _)
\* the part of x the steps at[n..] lead to
GetAt(x, at, n) ==
    IF n > Len(at) THEN x
    ELSE GetAt(IF at[n].d THEN DictGet(x, at[n].k) ELSE x.v[at[n].n], at, n + 1)

RECURSIVE SetAt(_, _, _, _)
\* x with the part the steps at[n..] lead to replaced by new
SetAt(x, at, n, new) ==
    IF n > Len(at) THEN new
    ELSE IF at[n].d THEN DictSet(x, at[n].k, SetAt(DictGet(x, at[n].k), at, n + 1, new))
    ELSE [x EXCEPT !.v[at[n].n] = SetAt(x.v[at[n].n], at, n + 1, new)]

\* the right operand changed the response while the left one holds a list,
\* dict or bound method: what the left operand then is lies outside the subset
Stale(left, right) == right.r # left.r /\ left.v.t \in {"list", "dict", "method"}

\* a call of a method of a list or dict that is part of the response
\* (append, clear, pop and reverse of a list, clear of a dict; an argument
\* that is itself a list or dict would be shared, which is outside the subset)
MethodCall(f, args, r) ==
    LET self == GetAt(r, f.at, 1)
        done(value, new) == Out(value, SetAt(r, f.at, 1, new))
    IN  CASE ~f.ref \/ \E n \in 1..Len(args) : args[n].t \in {"list", "dict", "method"} ->
                Out(Raise("Unsupported"), r)
          [] f.v.of = "list" /\ f.v.v = "append" /\ Len(args) = 1 ->
                done(None, VList(Append(self.v, args[1])))
          [] f.v.of = "list" /\ f.v.v = "clear" /\ args = <<>> -> done(None, VList(<<>>))
          [] f.v.of = "list" /\ f.v.v = "pop" /\ args = <<>> /\ self.v = <<>> ->
                Out(Raise("IndexError"), r)
          [] f.v.of = "list" /\ f.v.v = "pop" /\ args = <<>> ->
                done(self.v[Len(self.v)], VList(SubSeq(self.v, 1, Len(self.v) - 1)))
          [] f.v.of = "list" /\ f.v.v = "reverse" /\ args = <<>> ->
                done(None, VList([n \in 1..Len(self.v) |-> self.v[Len(self.v) + 1 - n]]))
          [] f.v.of = "dict" /\ f.v.v = "clear" /\ args = <<>> -> done(None, VDict(<<>>, <<>>))
          [] OTHER -> Out(Raise("Unsupported"), r)

\* f(*args) for the callables of the evaluation context and the methods
PyCall(f, args, r) ==
    IF f.v.t # "method" THEN Out(Raise("TypeError"), r)
    ELSE IF f.v.of # "builtin" THEN MethodCall(f, args, r)
    ELSE IF f.v.v = "count"
    THEN Out(IF Len(args) = 1 THEN VInt(PyLenOrZero(args[1])) ELSE Raise("TypeError"), r)
    ELSE IF Len(args) = 0 THEN Out(VStr(""), r)
    ELSE IF Len(args) = 1 THEN Out(VStr(PyStr(args[1])), r)
    ELSE Out(Raise("TypeError"), r)

\* the names an eval context binds: the condition context has response and
\* count (lines 193-196), the value context adds string (lines 125-129)
Lookup(id, resp, ctx) ==
    IF id = "response" THEN resp
    ELSE IF id = "count" THEN VMethod("builtin", "count")
    ELSE IF id = "string" /\ ctx = "value" THEN VMethod("builtin", "string")
    ELSE Raise("NameError")

RECURSIVE EvalNode(_, _, _)
RECURSIVE EvalSeq(_, _, _, _, _)
RECURSIVE EvalChain(_, _, _, _)
RECURSIVE EvalFold(_, _, _, _)

\* the values of nodes[n..] evaluated in turn, or the first exception
EvalSeq(nodes, n, acc, resp, ctx) ==
    IF n > Len(nodes) THEN Out(VList(acc), resp)
    ELSE LET x == EvalNode(nodes[n], resp, ctx)
         IN  IF IsRaise(x.v) THEN x
             ELSE IF x.r # resp /\ \E m \in 1..Len(acc) : acc[m].t \in {"list", "dict", "method"}
             THEN Out(Raise("Unsupported"), x.r)
             ELSE EvalSeq(nodes, n + 1, Append(acc, x.v), x.r, ctx)

\* e1 o1 e2 o2 e3 ...: left is what es[n] left; each operand is evaluated
\* once and the chain stops at the first comparison that is not true
EvalChain(node, n, left, ctx) ==
    LET right == EvalNode(node.es[n + 1], left.r, ctx)
        c == Compare(node.ops[n], left.v, right.v)
    IN  IF IsRaise(left.v) THEN left
        ELSE IF IsRaise(right.v) THEN right
        ELSE IF Stale(left, right) THEN Out(Raise("Unsupported"), right.r)
        ELSE IF IsRaise(c) \/ n = Len(node.ops) \/ ~Truthy(c) THEN Out(c, right.r)
        ELSE EvalChain(node, n + 1, right, ctx)

\* or, and: the first operand that decides, else the last; + - *: from
\* the left.  left is what es[1..n-1] left
EvalFold(node, n, left, ctx) ==
    IF n > Len(node.es) \/ IsRaise(left.v) THEN left
    ELSE IF node.n = "or" /\ Truthy(left.v) THEN left
    ELSE IF node.n = "and" /\ ~Truthy(left.v) THEN left
    ELSE LET right == EvalNode(node.es[n], left.r, ctx)
         IN  EvalFold(node, n + 1,
                      IF node.n \in {"or", "and"} \/ IsRaise(right.v) THEN right
                      ELSE IF Stale(left, right) THEN Out(Raise("Unsupported"), right.r)
                      ELSE Out(BinOp(node.ops[n - 1], left.v, right.v), right.r), ctx)

EvalNode(node, resp, ctx) ==
    LET \* the operand of a prefix operator
        a == EvalNode(node.a, resp, ctx)
        \* the value a trailer is attached to, then the trailer's argument
        e == EvalNode(node.e, resp, ctx)
        arg == EvalNode(node.a, e.r, ctx)
        x == PySubscript(e.v, arg.v)
    IN  CASE node.n = "const" -> Out(node.v, resp)
          [] node.n = "name" /\ node.id = "response" ->
                [v |-> resp, ref |-> TRUE, at |-> <<>>, r |-> resp]
          [] node.n = "name" -> Out(Lookup(node.id, resp, ctx), resp)
          [] node.n \in {"or", "and", "sum", "term"} ->
                EvalFold(node, 2, EvalNode(node.es[1], resp, ctx), ctx)
          [] node.n = "cmp" -> EvalChain(node, 1, EvalNode(node.es[1], resp, ctx), ctx)
          [] node.n = "list" -> EvalSeq(node.es, 1, <<>>, resp, ctx)
          [] node.n = "attr" ->
                IF IsRaise(e.v) THEN e
                ELSE IF HasAttr(e.v, node.id) THEN [e EXCEPT !.v = GetAttr(e.v, node.id)]
                ELSE Out(Raise("AttributeError"), e.r)
          [] node.n = "not" -> IF IsRaise(a.v) THEN a ELSE Out(VBool(~Truthy(a.v)), a.r)
          [] node.n = "unary" ->
                IF IsRaise(a.v) THEN a
                ELSE IF IsNum(a.v) THEN Out(VInt(IF node.o = "-" THEN 0 - Num(a.v) ELSE Num(a.v)), a.r)
                ELSE IF a.v.t = "float" THEN Out(Raise("Unsupported"), a.r)
                ELSE Out(Raise("TypeError"), a.r)
          [] node.n = "subscript" ->
                IF IsRaise(e.v) THEN e
                ELSE IF IsRaise(arg.v) THEN arg
                ELSE IF Stale(e, arg) THEN Out(Raise("Unsupported"), arg.r)
                ELSE IF e.ref /\ e.v.t \in {"list", "dict"} /\ ~IsRaise(x)
                THEN [v |-> x, ref |-> TRUE, at |-> Append(e.at, At1(e.v, arg.v)), r |-> arg.r]
                ELSE Out(x, arg.r)
          [] node.n = "call" ->
                IF IsRaise(e.v) THEN e
                ELSE IF IsRaise(arg.v) THEN arg
                ELSE IF Stale(e, arg) THEN Out(Raise("Unsupported"), arg.r)
                ELSE PyCall(e, arg.v.v, arg.r)

\* what evaluating the tokenized source leaves; the tokenizer's or parser's
\* exception is raised before anything is evaluated
EvalTokens(lexed, resp, ctx) ==
    IF lexed.err # "" THEN Out(Raise(lexed.err), resp)
    ELSE EvalNode(Whole(lexed.toks, ParseExpr(lexed.toks, 1, 1)).node, resp, ctx)

\* eval(source, {"__builtins__": {}}, eval_context): the value (v) and the
\* response afterwards (r)
PyEval(source, resp, ctx) ==
    EvalTokens(TokenRun(source, 1, Len(source),
                        [err |-> "", toks |-> <<>>, depth |-> 0, skip |-> 1]),
               resp, ctx)

-----------------------------------------------------------------------------
(* _evaluate_condition *)

\* one position of a left-to-right substitution; st = [out, skip]:
\*   "field"  line 203  re.sub(r'response\.(\w+)', r"response['\1']", condition)
\*   "or"     line 206  re.sub(r'\bor\b', 'or', condition, flags=re.IGNORECASE)
\*   "and"    line 207  re.sub(r'\band\b', 'and', condition, flags=re.IGNORECASE)
\*   "null"   line 210  condition.replace('null', 'None')
\*   "equals" line 214  re.sub(r'(\s)=(?!=)(\s)', r'\1==\2', condition)
SubStep(kind, s, i, st) ==
    LET e == WordEnd(s, i + 9)
        put(x, next) == [out |-> st.out \o x, skip |-> next]
        \* \b before position i and \b before position j
        bounded(j) == /\ (i = 1 \/ Ch(s, i - 1) \notin WordSet)
                      /\ (j > Len(s) \/ Ch(s, j) \notin WordSet)
    IN  CASE i < st.skip -> st
          [] kind = "field" /\ At(s, i, "response.") /\ e > i + 9 ->
                put("response['" \o Sub(s, i + 9, e - 1) \o "']", e)
          [] kind \in {"or", "and"} /\ AtNoCase(s, i, kind) /\ bounded(i + Len(kind)) ->
                put(kind, i + Len(kind))
          [] kind = "null" /\ At(s, i, "null") -> put("None", i + 4)
          [] kind = "equals" /\ i + 2 <= Len(s) /\ Ch(s, i) \in SpaceChars /\ Ch(s, i + 1) = "="
                /\ Ch(s, i + 2) \in SpaceChars ->
                put(Ch(s, i) \o "==" \o Ch(s, i + 2), i + 3)
          [] OTHER -> put(Ch(s, i), i + 1)

RECURSIVE SubRun(_, _, _, _, _)
SubRun(kind, s, i, j, st) ==
    IF i < j
    THEN LET left == SubRun(kind, s, i, (i + j) \div 2, st)
         IN  IF left.skip > j THEN left ELSE SubRun(kind, s, (i + j) \div 2 + 1, j, left)
    ELSE IF i = j THEN SubStep(kind, s, i, st) ELSE st

RECURSIVE Rewrite(_, _, _)
\* the substitutions kinds[n..] applied to s in turn
Rewrite(kinds, n, s) ==
    IF s = "" \/ n > Len(kinds) THEN s
    ELSE Rewrite(kinds, n + 1, SubRun(kinds[n], s, 1, Len(s), [out |-> "", skip |-> 1]).out)

\* lines 199-214: the Python source text the condition is rewritten to
RewriteCondition_null_kept(condition_str) ==
    Rewrite(<<"field", "or", "and", "equals">>, 1, condition_str)

RewriteCondition(condition_str) ==
    Rewrite(<<"field", "or", "and", "null", "equals">>, 1, condition_str)

\* line 223: the log line calls response.get('body') and, when that is
\* truthy, len() of it; either can raise inside the try block
LogLineRaises(resp) ==
    \/ resp.t # "dict"
    \/ /\ Truthy(DictGet(resp, "body"))
       /\ DictGet(resp, "body").t \notin {"str", "list", "dict"}

\* lines 217-231: bool(result) of the evaluated source; any exception is False
ConditionResult_true_on_error(value, resp) ==
    IF IsRaise(value) THEN TRUE
    ELSE IF LogLineRaises(resp) THEN FALSE
    ELSE Truthy(value)

ConditionResult(value, resp) ==
    IF IsRaise(value) THEN FALSE
    ELSE IF LogLineRaises(resp) THEN FALSE
    ELSE Truthy(value)

\* _evaluate_condition(condition_str, response): the BOOLEAN returned (v)
\* and the response afterwards (r)
_evaluate_condition(condition_str, resp) ==
    LET run == PyEval(RewriteCondition(condition_str), resp, "cond")
    IN  Out(ConditionResult(run.v, run.r), run.r)

-----------------------------------------------------------------------------
(* _parse_feel_dict_literal and _evaluate_feel_value *)

\* the characters the parser's own whitespace loops skip (lines 256, 272)
ParserSpace == {" ", "\n", "\t", "\r"}

\* line 263: re.match(r'([a-zA-Z_][a-zA-Z0-9_]*)\s*:', content[i:]); the
\* position after the colon, 0 when the text at i is not "key :"
KeyMatchEnd_empty_match(content, i) == i

KeyMatchEnd(content, i) ==
    IF MatchIdent(content, i) = "" THEN 0
    ELSE LET c == SkipWhile(content, WordEnd(content, i), SpaceChars)
         IN  IF c <= Len(content) /\ Ch(content, c) = ":" THEN c + 1 ELSE 0

\* one character of the value scan of lines 282-317;
\* st = [stop, brace_depth, bracket_depth, in_string, escape], stop = 0 while running
ValueStep_quotes_ignored(content, i, st) ==
    LET char == Ch(content, i)
    IN  CASE st.stop # 0 -> st
          [] char = "{" -> [st EXCEPT !.brace_depth = @ + 1]
          [] char = "}" /\ st.brace_depth = 0 -> [st EXCEPT !.stop = i]
          [] char = "}" -> [st EXCEPT !.brace_depth = @ - 1]
          [] char = "[" -> [st EXCEPT !.bracket_depth = @ + 1]
          [] char = "]" -> [st EXCEPT !.bracket_depth = @ - 1]
          [] char = "," /\ st.brace_depth = 0 /\ st.bracket_depth = 0 -> [st EXCEPT !.stop = i]
          [] OTHER -> st

ValueStep(content, i, st) ==
    LET char == Ch(content, i)
    IN  CASE st.stop # 0 -> st
          [] st.escape -> [st EXCEPT !.escape = FALSE]
          [] char = "\\" -> [st EXCEPT !.escape = TRUE]
          [] char = "\"" -> [st EXCEPT !.in_string = ~@]
          [] st.in_string -> st
          [] char = "{" -> [st EXCEPT !.brace_depth = @ + 1]
          [] char = "}" /\ st.brace_depth = 0 -> [st EXCEPT !.stop = i]
          [] char = "}" -> [st EXCEPT !.brace_depth = @ - 1]
          [] char = "[" -> [st EXCEPT !.bracket_depth = @ + 1]
          [] char = "]" -> [st EXCEPT !.bracket_depth = @ - 1]
          [] char = "," /\ st.brace_depth = 0 /\ st.bracket_depth = 0 -> [st EXCEPT !.stop = i]
          [] OTHER -> st

RECURSIVE ValueRun(_, _, _, _)
ValueRun(content, i, j, st) ==
    IF i < j
    THEN LET left == ValueRun(content, i, (i + j) \div 2, st)
         IN  IF left.stop # 0 THEN left ELSE ValueRun(content, (i + j) \div 2 + 1, j, left)
    ELSE IF i = j THEN ValueStep(content, i, st) ELSE st

\* lines 276-317: the position where the value that starts at i stops
ScanValue(content, i) ==
    LET stop == ValueRun(content, i, Len(content),
                         [stop |-> 0, brace_depth |-> 0, bracket_depth |-> 0,
                          in_string |-> FALSE, escape |-> FALSE]).stop
    IN  IF stop # 0 THEN stop ELSE Len(content) + 1

\* lines 425-427 and 431-432: a non-blank operand is kept, stripped
Flush(parts, current) == IF Strip(current) # "" THEN Append(parts, Strip(current)) ELSE parts

\* one character of the splitter of lines 397-429;
\* st = [parts, current, in_string, escape, depth]
ConcatStep(value_str, i, st) ==
    LET char == Ch(value_str, i)
        keep == [st EXCEPT !.current = @ \o char]
    IN  CASE st.escape -> [keep EXCEPT !.escape = FALSE]
          [] char = "\\" -> [keep EXCEPT !.escape = TRUE]
          [] char = "\"" -> [keep EXCEPT !.in_string = ~@]
          [] st.in_string -> keep
          [] char \in {"(", "[", "{"} -> [keep EXCEPT !.depth = @ + 1]
          [] char \in {")", "]", "}"} -> [keep EXCEPT !.depth = @ - 1]
          [] char = "+" /\ st.depth = 0 ->
                [st EXCEPT !.parts = Flush(st.parts, st.current), !.current = ""]
          [] OTHER -> keep

RECURSIVE ConcatRun(_, _, _, _)
ConcatRun(value_str, i, j, st) ==
    IF i < j
    THEN LET left == ConcatRun(value_str, i, (i + j) \div 2, st)
         IN  IF left.depth = left.depth THEN ConcatRun(value_str, (i + j) \div 2 + 1, j, left) ELSE left
    ELSE IF i = j THEN ConcatStep(value_str, i, st) ELSE st

\* lines 391-432: the operands between top-level + signs
SplitConcat(value_str) ==
    LET st == ConcatRun(value_str, 1, Len(value_str),
                        [parts |-> <<>>, current |-> "", in_string |-> FALSE,
                         escape |-> FALSE, depth |-> 0])
    IN  Flush(st.parts, st.current)

\* line 449: re.match(r'(\w+)\s*\((.+)\)$', value_str); the position of the
\* opening parenthesis, 0 when there is no match
FuncMatchOpen(value_str) ==
    LET o == SkipWhile(value_str, WordEnd(value_str, 1), SpaceChars)
        n == Len(value_str)
    IN  IF /\ WordEnd(value_str, 1) > 1
           /\ o <= n /\ Ch(value_str, o) = "("
           /\ n >= o + 2 /\ Ch(value_str, n) = ")"
           /\ ~Contains(Sub(value_str, o + 1, n - 1), "\n")
        THEN o ELSE 0

\* line 440: str(part_val) if part_val is not None else ''
ConcatText(part_val) == IF part_val.t = "null" THEN "" ELSE PyStr(part_val)

\* lines 139-147 and 244: the text is a brace-delimited literal
IsBraced(dict_str) == StartsWith(dict_str, "{") /\ EndsWith(dict_str, "}")

\* the first of two outcomes that is not an exception: one try block falling
\* through to the next
FirstOf(a, b) == IF IsRaise(a) THEN b ELSE a

\* lines 447-467: name(argument) with the argument arg_val resolved as a
\* field path; Raise("none") stands for falling through to the next form
FunctionCall(func_name, open, arg_val) ==
    IF open = 0 \/ IsRaise(arg_val) THEN Raise("none")
    ELSE IF func_name = "count" THEN VInt(PyLenOrZero(arg_val))
    ELSE IF func_name = "string" THEN VStr(PyStr(arg_val))
    ELSE Raise("none")

\* the keywords of lines 378-388, matched on the lower-cased text
IsKeyword(v, word) == Len(v) = Len(word) /\ Lower(v) = word

RECURSIVE _parse_feel_dict_literal(_, _)
RECURSIVE ParseEntries(_, _)
RECURSIVE _evaluate_feel_value(_, _)
RECURSIVE ConcatParts(_, _, _, _)

\* ''.join of the texts of the operands parts[i..j], evaluated in turn (lines
\* 436-444): str() of the operand's value, '' for None, the operand's own
\* text when its evaluation raised
ConcatParts(parts, i, j, resp) ==
    LET left == ConcatParts(parts, i, (i + j) \div 2, resp)
        right == ConcatParts(parts, (i + j) \div 2 + 1, j, left.r)
        part_val == _evaluate_feel_value(parts[i], resp)
    IN  IF i < j THEN Out(VStr(left.v.v \o right.v.v), right.r)
        ELSE Out(VStr(IF IsRaise(part_val.v) THEN parts[i] ELSE ConcatText(part_val.v)),
                 part_val.r)

\* _evaluate_feel_value(value_str, eval_context), eval_context['response'] =
\* resp: the value returned (v) and the response afterwards (r).
\* Lines 349-388: object, array (an empty interior or a failed eval is []),
\* string literal and the keywords come first.  Lines 390-493, in the code's
\* order: concatenation of the operands between top-level + signs, function
\* call, field access (a text with . or [), number (int() of a text without
\* a dot), eval, raw text
_evaluate_feel_value(value_str, resp) ==
    LET v == Strip(value_str)
        inner == Strip(Sub(v, 2, Len(v) - 1))
        array == PyEval("[" \o inner \o "]", resp, "value")
        parts == IF Contains(v, "+") THEN SplitConcat(v) ELSE <<>>
        open == FuncMatchOpen(v)
        call == IF Contains(v, "(") /\ Contains(v, ")")
                THEN FunctionCall(Lower(Sub(v, 1, WordEnd(v, 1) - 1)), open,
                                  _evaluate_field_access(Sub(v, open + 1, Len(v) - 1), resp))
                ELSE Raise("none")
        field == IF Contains(v, ".") \/ Contains(v, "[")
                 THEN _evaluate_field_access(v, resp) ELSE Raise("none")
        evaluated == PyEval(v, resp, "value")
    IN  CASE IsBraced(v) -> _parse_feel_dict_literal(v, resp)
          [] StartsWith(v, "[") /\ EndsWith(v, "]") /\ inner = "" -> Out(VList(<<>>), resp)
          [] StartsWith(v, "[") /\ EndsWith(v, "]") ->
                Out(FirstOf(array.v, VList(<<>>)), array.r)
          \* lines 374-375: wrapped in one kind of quote, with no + at all inside
          [] /\ \E q \in {"\"", "'"} : StartsWith(v, q) /\ EndsWith(v, q)
             /\ ~Contains(Sub(v, 2, Len(v) - 1), "+") ->
                Out(VStr(Sub(v, 2, Len(v) - 1)), resp)
          [] IsKeyword(v, "null") -> Out(None, resp)
          [] IsKeyword(v, "true") -> Out(VBool(TRUE), resp)
          [] IsKeyword(v, "false") -> Out(VBool(FALSE), resp)
          [] Len(parts) > 1 -> ConcatParts(parts, 1, Len(parts), resp)
          [] ~IsRaise(call) -> Out(call, resp)
          [] ~IsRaise(field) -> Out(field, resp)
          [] ~Contains(v, ".") /\ IsIntText(v) -> Out(VInt(IntValue(v)), resp)
          [] ~IsRaise(evaluated.v) -> Out(evaluated.v, evaluated.r)
          [] OTHER -> Out(VStr(v), evaluated.r)

\* lines 321-327: the evaluated value, or the raw text without its quotes
\* when the evaluation raised
Stored(value, value_str) ==
    IF IsRaise(value) THEN VStr(StripChars(value_str, {"\""})) ELSE value

\* lines 254-266: from position i the loop passes over whitespace and, one
\* character at a time, over text where the key regex does not match; the
\* position of the next key, 0 when the loop runs off the end
KeyStart(content, i) ==
    IF \E p \in i..Len(content) : KeyMatchEnd(content, p) # 0
    THEN CHOOSE p \in i..Len(content) :
            /\ KeyMatchEnd(content, p) # 0
            /\ \A q \in i..(p - 1) : KeyMatchEnd(content, q) = 0
    ELSE 0

\* the loop of lines 254-335 up to and including the next entry;
\* st = [i, result, resp], i the position the loop is at and resp the
\* response as the entries read so far left it: the entry is read whole and
\* the commas after it are skipped
EntryStep(content, st) ==
    LET key_start == KeyStart(content, st.i)
        value_start == SkipWhile(content, KeyMatchEnd(content, key_start), ParserSpace)
        value_end == ScanValue(content, value_start)
        value_str == Strip(Sub(content, value_start, value_end - 1))
        value == _evaluate_feel_value(value_str, st.resp)
    IN  IF key_start = 0 THEN [st EXCEPT !.i = Len(content) + 1]
        ELSE [i |-> SkipWhile(content, value_end, ParserSpace \cup {","}),
              result |-> DictSet(st.result, MatchIdent(content, key_start),
                                 Stored(value.v, value_str)),
              resp |-> value.r]

\* line 254: while i < len(content)
ParseEntries(content, st) ==
    IF st.i > Len(content) THEN st
    ELSE ParseEntries(content, EntryStep(content, st))

\* line 337: return result if result else None
NoneIfEmpty(parsed) == IF parsed.k = <<>> THEN None ELSE parsed

\* _parse_feel_dict_literal(dict_str, eval_context): a dict or None (v), and
\* the response afterwards (r)
_parse_feel_dict_literal(dict_str, resp) ==
    LET d == Strip(dict_str)
        st == ParseEntries(Sub(d, 2, Len(d) - 1),
                           [i |-> 1, result |-> VDict(<<>>, <<>>), resp |-> resp])
    IN  IF ~IsBraced(d) THEN Out(None, resp)
        ELSE Out(NoneIfEmpty(st.result), st.resp)

-----------------------------------------------------------------------------
(* _evaluate_feel_fallback and _evaluate_result_expression *)

\* the default output (lines 76, 144, 147, 173)
DefaultOutput_response_key(resp) == VDict(<<"response">>, <<resp>>)

DefaultOutput(resp) == VDict(<<"magentoResponse">>, <<resp>>)

\* \s+ keyword \s+ { at position p: the position of the brace, 0 if none
BraceAfter(e, p, keyword) ==
    LET b == SkipWhile(e, p + Len(keyword), SpaceChars)
    IN  IF AtNoCase(e, p, keyword) /\ p > 1 /\ Ch(e, p - 1) \in SpaceChars
           /\ b > p + Len(keyword) /\ b <= Len(e) /\ Ch(e, b) = "{"
        THEN b ELSE 0

\* \}\s+else\s+(\{.+\})$ with the closing brace of the then object at g: the
\* position of the else object's brace, 0 if none
ElseBrace(e, g) ==
    IF g <= Len(e) /\ Ch(e, g) = "}" /\ Ch(e, Len(e)) = "}"
    THEN LET b == BraceAfter(e, SkipWhile(e, g + 1, SpaceChars), "else")
         IN  IF b + 2 <= Len(e) THEN b ELSE 0
    ELSE 0

\* the ends the lazy (\{.+?\}) can take for a then object opening at b
ThenEnds(e, b) == IF b = 0 THEN {} ELSE {g \in (b + 2)..Len(e) : ElseBrace(e, g) # 0}

\* the groups of the match whose condition starts at a and whose "then" is at p
MatchGroups(e, a, p, g) ==
    [ok |-> TRUE, condition_str |-> Strip(Sub(e, a, p - 1)),
     then_obj_str |-> Sub(e, BraceAfter(e, p, "then"), g), else_obj_str |-> From(e, ElseBrace(e, g))]

NoMatch == [ok |-> FALSE, condition_str |-> "", then_obj_str |-> "", else_obj_str |-> ""]

\* the matcher takes the earliest "then" that lets the rest match (late: the
\* ones after a condition that starts at a), then the shortest then object
MatchThen(e, a, late) ==
    IF late # {}
    THEN MatchGroups(e, a, SetMin(late), SetMin(ThenEnds(e, BraceAfter(e, SetMin(late), "then"))))
    ELSE IF a > 5 /\ ThenEnds(e, BraceAfter(e, a, "then")) # {}
    THEN MatchGroups(e, a, a, SetMin(ThenEnds(e, BraceAfter(e, a, "then"))))
    ELSE NoMatch

\* line 137: re.match(r'^\s*if\s+(.+?)\s+then\s+(\{.+?\})\s+else\s+(\{.+\})$',
\* expression, re.DOTALL | re.IGNORECASE)
IfMatch(e) ==
    LET a == SkipWhile(e, 3, SpaceChars)
    IN  IF AtNoCase(e, 1, "if") /\ a > 3
        THEN MatchThen(e, a, {p \in (a + 2)..Len(e) : ThenEnds(e, BraceAfter(e, p, "then")) # {}})
        ELSE NoMatch

\* lines 141-147 and 166-173: the parsed object, the default when the text
\* does not parse to one
OrDefault_unchecked(parsed) == parsed

OrDefault(parsed) ==
    IF parsed.v.t = "dict" THEN parsed ELSE Out(DefaultOutput(parsed.r), parsed.r)

\* line 162: obj_str = then_obj_str if condition_value else else_obj_str
SelectBranch_swapped(condition_value, then_obj_str, else_obj_str) ==
    IF condition_value THEN else_obj_str ELSE then_obj_str

SelectBranch(condition_value, then_obj_str, else_obj_str) ==
    IF condition_value THEN then_obj_str ELSE else_obj_str

\* lines 137-173 on the stripped expression e; the selected object is parsed
\* against the response as the condition left it
Fallback(e, if_match, resp) ==
    LET condition_value == _evaluate_condition(if_match.condition_str, resp)
    IN  IF if_match.ok
        THEN OrDefault(_parse_feel_dict_literal(
                           SelectBranch(condition_value.v, Strip(if_match.then_obj_str),
                                        Strip(if_match.else_obj_str)),
                           condition_value.r))
        ELSE IF StartsWith(e, "{") THEN OrDefault(_parse_feel_dict_literal(e, resp))
        ELSE Out(DefaultOutput(resp), resp)

\* _evaluate_feel_fallback(expression, response): the mapping returned (v)
\* and the response afterwards (r)
_evaluate_feel_fallback(expression, resp) ==
    Fallback(Strip(expression), IfMatch(Strip(expression)), resp)

\* _evaluate_result_expression(expression, response): the mapping returned
\* (v) and the response afterwards (r)
_evaluate_result_expression(expression, resp) ==
    IF expression = "" \/ Strip(expression) = "" THEN Out(DefaultOutput(resp), resp)
    ELSE _evaluate_feel_fallback(LStripChars(expression, {"=", " ", "\t"}), resp)

-----------------------------------------------------------------------------
(* Inputs: the response values and the texts the evaluator is applied to.  *)

MaxBody == 3       \* longest generated body sequence
MaxIndex == 4      \* largest magnitude of a generated subscript
MaxDepth == 2      \* deepest nesting of a generated brace text
MaxOperands == 3   \* most operands of a generated concatenation
MaxJobs == 2       \* jobs the worker handles at the same time

\* the response of _handle_operation (line 681): {"status": status, "body": body}
Response(body) == VDict(<<"status", "body">>, <<VInt(200), body>>)
BodyOnly(body) == VDict(<<"body">>, <<body>>)

\* a body of n strings: ["x", "y", "z", ...]
StrBody(n) == VList([i \in 1..n |-> VStr(Ch("xyzuvwrst", i))])

ProductBody ==
    VList(<<VDict(<<"items">>,
                  <<VList(<<VDict(<<"product_name">>, <<VStr("A")>>),
                            VDict(<<"product_name">>, <<VStr("B")>>)>>)>>)>>)

\* the first order of the sample data of test_list_orders_expression
OrderBody ==
    VList(<<VDict(<<"order_id", "customer_id", "delivery_date", "status", "items">>,
                  <<VStr("ORD-2025-007891"), VStr("0039Q00001VsHMXQA3"),
                    VStr("2024-12-21"), VStr("DELIVERED"),
                    VList(<<VDict(<<"product_id", "product_name", "unit_price", "quantity">>,
                                  <<VStr("PROD-001"), VStr("HomeStream Basic Router"),
                                    VFloat("149.99"), VInt(1)>>),
                            VDict(<<"product_id", "product_name", "unit_price", "quantity">>,
                                  <<VStr("PROD-004"), VStr("Spare Cable"),
                                    VFloat("24.99"), VInt(1)>>)>>)>>)>>)

Responses ==
    {Response(StrBody(n)) : n \in 0..MaxBody}
    \cup {Response(b) : b \in {None, VList(<<VInt(1), VInt(2)>>), VList(<<VStr("abc")>>),
                                VStr("abc"), VStr(""), VInt(5),
                                VDict(<<"name">>, <<VStr("abc")>>), ProductBody, OrderBody}}
    \cup {BodyOnly(VList(<<>>)), BodyOnly(StrBody(2)), BodyOnly(VList(<<VInt(1), VInt(2)>>)),
          BodyOnly(ProductBody), VDict(<<"status">>, <<VInt(404)>>)}

Body(resp) == DictGet(resp, "body")

\* the resultExpression of the listOrders task (test_feel_evaluator.py)
ListOrdersExpression ==
    "if response.body = null or count(response.body) = 0 then\n"
    \o "{\n"
    \o "  recentOrders: [],\n"
    \o "  selectedOrderCandidate: null,\n"
    \o "  toolCallResult: {\n"
    \o "    status: \"no_orders\",\n"
    \o "    message: \"No recent orders found for this customer.\"\n"
    \o "  }\n"
    \o "}\n"
    \o "else\n"
    \o "{\n"
    \o "  recentOrders: response.body,\n"
    \o "  selectedOrderCandidate: response.body[1],\n"
    \o "  toolCallResult: {\n"
    \o "    status: \"orders_found\",\n"
    \o "    candidate: {\n"
    \o "      orderId: response.body[1].order_id,\n"
    \o "      deliveryDate: response.body[1].delivery_date,\n"
    \o "      status: response.body[1].status,\n"
    \o "      firstItem: response.body[1].items[1]\n"
    \o "    },\n"
    \o "    message:\n"
    \o "      \"Found a delivered order. Likely match: \" +\n"
    \o "      response.body[1].items[1].product_name +\n"
    \o "      \" delivered on \" + response.body[1].delivery_date +\n"
    \o "      \" for $\" + string(response.body[1].items[1].unit_price) +\n"
    \o "      \". Ask the customer to confirm this is the one to return.\"\n"
    \o "  }\n"
    \o "}\n"

\* "if <condition> then <object> else <object>"
Conditional(c, t, e) == "if " \o c \o " then " \o t \o " else " \o e

ConditionTexts ==
    {"count(response.body) = 0", "response.body = null or count(response.body) = 0",
     "response.body = null",
     "response.status = 200", "count(response.body) = 2 and response.status = 200"}

ObjectTexts ==
    {"{ status: \"empty\" }",
     "{ status: \"full\", first: response.body[1] }",
     "{ n: count(response.body), inner: { a: 1, b: null } }"}

ScenarioExpression ==
    Conditional("count(response.body) = 0", "{ status: \"empty\" }",
                "{ status: \"full\", first: response.body[1] }")

\* the conditional "if count(response.body) = 0 then { status: "empty" } else
\* { status: "full" }" with the keywords spelled kw[1], kw[2], kw[3] and the
\* whitespace w between each of then and else and the braces next to it
KeywordForm(kw, w) ==
    kw[1] \o " count(response.body) = 0 " \o kw[2] \o w \o "{ status: \"empty\" }"
        \o w \o kw[3] \o w \o "{ status: \"full\" }"

KeywordForms ==
    {KeywordForm(kw, w) : kw \in {<<"if", "then", "else">>, <<"IF", "THEN", "ELSE">>,
                                  <<"If", "tHen", "elsE">>},
                          w \in {"", " ", "\n", " \t\n "}}

\* value texts that hold commas, braces and brackets inside a quoted string
\* or inside a nested array or object
SpanValues ==
    {"\"x, y}\"", "[1, 2]", "{d: 1}", "\"}\"", "\"{\"", "\"[\"", "\"],\"",
     "[\"a,b\", 2]", "{d: \"}\", e: [1, 2]}", "\"x\\\", y\"", "[[1, 2], [3]]"}

RECURSIVE Nest(_, _)
\* i objects opened around the value 1 and j of them closed
Nest(i, j) ==
    IF i > 0 THEN "{a: " \o Nest(i - 1, j)
    ELSE IF j > 0 THEN Nest(0, j - 1) \o "}"
    ELSE "1"

\* conditions whose evaluation raises: a source eval cannot parse, a field
\* the response does not carry, a name the context does not bind
FailingConditions == {"1 +", "response.missing = 1", "missing = 1"}

Expressions ==
    {"", " ", " \t ", "\n"}
    \cup {Nest(i, j) : i \in 0..MaxDepth, j \in 0..(MaxDepth + 1)}
    \cup {"{a: {b: 1}", "{a: 1}}", "{a: 1", "{", "}", "{}", "{ }", "{a}", "{a: }"}
    \cup {Conditional(c, t, e) : c \in ConditionTexts, t \in ObjectTexts, e \in ObjectTexts}
    \cup {ListOrdersExpression, "=" \o ListOrdersExpression,
          "{ \"k\": 1, \"nested\": { \"j\": response.body } }",
          "{ k: 1, nested: { j: response.body } }",
          "= { total: count(response.body) }",
          "=", "response.body", "1 + 2", "if response.body = null then 1 else 2",
          "if count(response.body) = 0 then { } else { status: \"full\" }",
          "if count(response.body) = 0 then { status: \"empty\" } else { }",
          "IF count(response.body) = 0 THEN\n{ status: \"empty\" }\nELSE\n{ status: \"full\" }",
          "if count(response.body) = 0 then { status: \"empty\" }",
          "if response.body.clear() then { a: 1 } else { b: response.body }"}
    \cup {Conditional(c, "{ a: 1 }", "{ b: 2 }") : c \in FailingConditions}
    \cup KeywordForms
    \cup {"{a: " \o value_str \o ", b: 1}" : value_str \in SpanValues}
    \cup {"{a: \"x, y}\", b: [1, 2], c: {d: 1}}"}

Subscripts == ((0 - MaxIndex)..MaxIndex) \cup {99}

SubscriptPath(k) == "response.body[" \o IntText(k) \o "]"

ProductPath == "response.body[1].items[1].product_name"

Paths ==
    {SubscriptPath(k) : k \in Subscripts}
    \cup {ProductPath, "response.body[1].items[2].product_name", "response", "response.body",
          "response.status", "response.missing", "response.missing.name[1]",
          "response.body.name", "response.body[name]", "response.body[1][1]",
          "body[1]", " response.body [ 1 ] ", "responses.body", "response_data.body",
          "resp.body", "Response.body", "response.body.count", "response.status.real",
          "response.status.imag", "response.body.upper"}
    \cup {root \o steps : root \in {"response.missing", "response.body.absent"},
                          steps \in {".name", ".a.b.c", "[1]", "[0]", "[-1]", "[name]",
                                     "[1][2].x", ".name[1].items[2]", " .name"}}

RECURSIVE JoinPlus(_, _)
\* the operands from the n-th on, separated by " + "
JoinPlus(texts, n) ==
    IF n = Len(texts) THEN texts[n] ELSE texts[n] \o " + " \o JoinPlus(texts, n + 1)

OperandSeqs ==
    UNION {[1..n -> {"\"a\"", "null", "1", "response.body", "[1]"}] : n \in 2..MaxOperands}

ConcatTexts == {JoinPlus(texts, 1) : texts \in OperandSeqs}

CountPaths == {"response.body", "response.body[1]", "response.missing"}

Values ==
    {"count(" \o path \o ")" : path \in CountPaths}
    \cup {"\"a\" + null + \"b\"", "1 + 2", "[1] + [2]", "{a: 1} + {b: 2}",
          "null", "true", "FALSE", "\"a\"", "'a'", "42", "-7", "[]", "[1, 2]",
          "{a: 1}", "response.body", "response.body[1]", "string(response.body)",
          "string(response.status)", "foo", "", "3.14", "0.5", "-2.5",
          "[null, true]", "[response.body[1]]", "[count(response.body)]", "[\"a\", 2]",
          "\"a+b\"", "\"v1.0+beta\"", "\"a[1]+b\"", "\"+\"",
          "string(5)", "count(\"abc\")", "count([1,2])", "string(true)",
          "2 * 3", "response", "1 - 2", "a b", " foo ", "1 +"}

Conditions ==
    ConditionTexts
    \cup {"count(" \o path \o ") = " \o IntText(k) : path \in CountPaths, k \in 0..MaxBody}
    \cup {"response.body[1] = \"x\"", "response.status = 200 or response.body = null",
          "response.body = null and response.status = 200", "1 = 1", "1 = 2", "",
          "response.body = \"abc\"", "count(response.body)",
          "response.body.status = \"ok\"", "response.body = \"null\"",
          "response.nullable = 1", "count(response.body)=0", "count(response.body) =0",
          "count(response.body)= 0", "count(response.body) == 0", "1=1"}
    \cup FailingConditions

-----------------------------------------------------------------------------
(* The state machine: a call is given its text and response, then one of   *)
(* the evaluator's functions is applied and its return value recorded.     *)

Inputs ==
    (Expressions \X Responses) \cup (Paths \X Responses) \cup (Conditions \X Responses)
    \cup (Values \X Responses)
    \cup (ConcatTexts \X {Response(None), Response(StrBody(2))})
    \cup ({"response.body[1]", "response.body[name]"}
              \X {Response(VDict(<<"1", "name">>, <<VStr("v"), VStr("w")>>))})
    \cup ({"response.body.status = \"ok\""}
              \X {Response(VDict(<<"status">>, <<VStr("ok")>>))})
    \cup ({"response.body = \"null\"", "response.nullable = 1", "response.body = null"}
              \X {Response(VStr("null")), Response(VStr("None")),
                  VDict(<<"status", "body", "nullable">>, <<VInt(200), None, VInt(1)>>),
                  VDict(<<"status", "body", "nullable">>, <<VInt(200), None, VInt(2)>>),
                  VDict(<<"status", "body", "Noneable">>, <<VInt(200), None, VInt(1)>>)})

Init ==
    /\ op = "start"
    /\ result = None
    /\ jobs = <<>>
    /\ locals = <<>>
    /\ \E input \in Inputs : text = input[1] /\ response = input[2]

\* output_vars = _evaluate_result_expression(result_expression, result)  (line 728)
Evaluate ==
    /\ op = "start"
    /\ text \in Expressions
    /\ op' = "evaluate"
    /\ \E out \in {_evaluate_result_expression(text, response)} :
          result' = out.v /\ response' = out.r
    /\ UNCHANGED <<text, jobs, locals>>

\* _evaluate_feel_value(value_str, eval_context)
EvaluateValue ==
    /\ op = "start"
    /\ text \in Values \cup ConcatTexts
    /\ op' = "value"
    /\ \E out \in {_evaluate_feel_value(text, response)} :
          result' = out.v /\ response' = out.r
    /\ UNCHANGED <<text, jobs, locals>>

\* _evaluate_condition(condition_str, response)
EvaluateCondition ==
    /\ op = "start"
    /\ text \in Conditions
    /\ op' = "condition"
    /\ \E out \in {_evaluate_condition(text, response)} :
          result' = VBool(out.v) /\ response' = out.r
    /\ UNCHANGED <<text, jobs, locals>>

\* _evaluate_field_access(field_str, eval_context)
ResolvePath ==
    /\ op = "start"
    /\ text \in Paths
    /\ op' = "field_access"
    /\ result' = _evaluate_field_access(text, response)
    /\ UNCHANGED <<text, response, jobs, locals>>

Next == Evaluate \/ EvaluateValue \/ EvaluateCondition \/ ResolvePath

Spec == Init /\ [][Next]_vars

-----------------------------------------------------------------------------
(* The worker: pyzeebe runs magento_connector, a plain function, for        *)
(* several jobs at the same time.  A call of the evaluator keeps what it    *)
(* works on in its arguments and locals, jobs[j] here: the text and the     *)
(* response it was called with (given: the response as it was at the call), *)
(* where it is (pc) and the locals condition_value and result.              *)

\* eval_context = {"response": response, ...}: built by each call around its
\* own response argument (lines 125-129 and 193-196)
JobContext_shared(j) == jobs[1].response

JobContext(j) == jobs[j].response

InitJobs ==
    /\ op = "jobs"
    /\ text = ""
    /\ response = None
    /\ result = None
    /\ locals = <<>>
    /\ jobs \in [1..MaxJobs ->
                   {[text |-> e, given |-> r, response |-> r, pc |-> "called",
                     then_obj_str |-> "", else_obj_str |-> "",
                     condition_value |-> FALSE, result |-> None] :
                        e \in {ScenarioExpression, "{ total: count(response.body) }",
                               "if response.body.clear() then { a: 1 } else { b: response.body }"},
                        r \in {Response(StrBody(0)), Response(StrBody(2))}}]

\* lines 137-158 of the call of job j: the expression is a conditional, its
\* groups are taken and its condition is evaluated
JobCondition(j) ==
    /\ jobs[j].pc = "called"
    /\ \E expression \in {jobs[j].text}, context \in {JobContext(j)} :
          /\ Strip(expression) # ""
          /\ \E if_match \in {IfMatch(Strip(LStripChars(expression, {"=", " ", "\t"})))} :
                /\ if_match.ok
                /\ \E condition_value \in {_evaluate_condition(if_match.condition_str,
                                                               context)} :
                      jobs' = [jobs EXCEPT ![j].pc = "condition",
                                           ![j].then_obj_str = Strip(if_match.then_obj_str),
                                           ![j].else_obj_str = Strip(if_match.else_obj_str),
                                           ![j].condition_value = condition_value.v,
                                           ![j].response = condition_value.r]
    /\ UNCHANGED <<op, text, response, result, locals>>

\* the rest of the call of job j, up to its return: lines 162-173 after the
\* condition of a conditional, the whole call for any other expression
JobReturn(j) ==
    /\ \E expression \in {jobs[j].text}, context \in {JobContext(j)} :
       \E returned \in
              CASE jobs[j].pc = "condition" ->
                     {OrDefault(_parse_feel_dict_literal(
                                    SelectBranch(jobs[j].condition_value,
                                                 jobs[j].then_obj_str, jobs[j].else_obj_str),
                                    context))}
                [] jobs[j].pc = "called"
                   /\ (Strip(expression) = ""
                       \/ ~IfMatch(Strip(LStripChars(expression, {"=", " ", "\t"}))).ok) ->
                     {_evaluate_result_expression(expression, context)}
                [] OTHER -> {} :
          jobs' = [jobs EXCEPT ![j].pc = "returned",
                               ![j].result = returned.v,
                               ![j].response = returned.r]
    /\ UNCHANGED <<op, text, response, result, locals>>

NextJobs == \E j \in 1..MaxJobs : JobCondition(j) \/ JobReturn(j)

SpecJobs == InitJobs /\ [][NextJobs]_vars

-----------------------------------------------------------------------------
(* The loops of _parse_feel_dict_literal and _evaluate_field_access, one    *)
(* pass at a time.  locals holds the locals of the running call: where it   *)
(* is (pc), the text it walks (content, rest), the position i (1-based; the *)
(* source's i plus one), key, value_start and the flags of the value scan   *)
(* (scan); i_before is the value i had when the current pass of the key     *)
(* loop began and passes counts the passes the call has made through its    *)
(* loops.  result and response are the call's result and the response of   *)
(* its eval_context.                                                        *)

InitLoops ==
    /\ op = "start"
    /\ result = None
    /\ jobs = <<>>
    /\ locals = [pc |-> "called"]
    /\ text \in Expressions \cup Paths
    /\ response \in {Response(None), Response(StrBody(2)), Response(VStr("abc")),
                     Response(ProductBody)}

\* lines 241-252: the text is stripped and tested for its braces; content is
\* what stands between them, and the key loop starts at its first character
ParserEnter ==
    /\ op = "start"
    /\ text \in Expressions
    /\ op' = "parse"
    /\ \E dict_str \in {Strip(text)} :
          IF IsBraced(dict_str)
          THEN /\ result' = VDict(<<>>, <<>>)
               /\ locals' = [pc |-> "key_loop", content |-> Sub(dict_str, 2, Len(dict_str) - 1),
                             i |-> 1, i_before |-> 1, key |-> "", value_start |-> 1, passes |-> 0,
                             scan |-> [stop |-> 0, brace_depth |-> 0, bracket_depth |-> 0,
                                       in_string |-> FALSE, escape |-> FALSE]]
          ELSE /\ result' = None
               /\ locals' = [pc |-> "done", passes |-> 0]
    /\ UNCHANGED <<text, response, jobs>>

\* lines 254-273, one pass through the head of the key loop: the loop ends
\* (and line 337 returns) when i or the whitespace skipped from i reaches the
\* end; where the key regex does not match, i moves on by one; where it
\* matches, i moves past the key, the colon and the whitespace after it
ParserKey ==
    /\ locals.pc = "key_loop"
    /\ \E content \in {locals.content}, p \in {SkipWhile(locals.content, locals.i, ParserSpace)} :
       \E key_end \in {IF p > Len(content) THEN 0 ELSE KeyMatchEnd(content, p)} :
          IF p > Len(content)
          THEN /\ locals' = [locals EXCEPT !.pc = "done", !.i = p, !.passes = @ + 1]
               /\ result' = IF result.k = <<>> THEN None ELSE result
          ELSE IF key_end = 0
          THEN /\ locals' = [locals EXCEPT !.i = p + 1, !.passes = @ + 1]
               /\ UNCHANGED result
          ELSE /\ locals' = [locals EXCEPT
                                !.pc = "value_scan",
                                !.passes = @ + 1,
                                !.i_before = locals.i,
                                !.key = MatchIdent(content, p),
                                !.i = SkipWhile(content, key_end, ParserSpace),
                                !.value_start = SkipWhile(content, key_end, ParserSpace),
                                !.scan = [stop |-> 0, brace_depth |-> 0, bracket_depth |-> 0,
                                          in_string |-> FALSE, escape |-> FALSE]]
               /\ UNCHANGED result
    /\ UNCHANGED <<op, text, response, jobs>>

\* lines 282-317, one pass through the value scan: the loop ends when i
\* reaches the end or the character at i ends the value (break); otherwise
\* the flags are updated and i moves on by one
ParserScan ==
    /\ locals.pc = "value_scan"
    /\ \E st \in {IF locals.i > Len(locals.content) THEN locals.scan
                  ELSE ValueStep(locals.content, locals.i, locals.scan)} :
          locals' = IF locals.i > Len(locals.content) \/ st.stop # 0
                    THEN [locals EXCEPT !.pc = "store", !.passes = @ + 1]
                    ELSE [locals EXCEPT !.i = @ + 1, !.scan = st, !.passes = @ + 1]
    /\ UNCHANGED <<op, text, response, result, jobs>>

\* lines 319-333, the rest of the pass of the key loop: the value is
\* evaluated and stored, commas and whitespace are skipped
ParserStore ==
    /\ locals.pc = "store"
    /\ \E value_str \in {Strip(Sub(locals.content, locals.value_start, locals.i - 1))},
          given \in {response} :
       \E value \in {_evaluate_feel_value(value_str, given)} :
          /\ result' = DictSet(result, locals.key, Stored(value.v, value_str))
          /\ response' = value.r
    /\ locals' = [locals EXCEPT
                     !.pc = "key_loop",
                     !.i = SkipWhile(locals.content, locals.i, ParserSpace \cup {","})]
    /\ UNCHANGED <<op, text, jobs>>

\* lines 506-522: the text has to start with response; rest is what follows
\* it, and without a rest the response itself is returned
ResolverEnter ==
    /\ op = "start"
    /\ text \in Paths
    /\ op' = "resolve"
    /\ \E field_str \in {Strip(text)} :
          IF ~StartsWith(field_str, "response")
          THEN /\ result' = None
               /\ locals' = [pc |-> "done", rest |-> "", i |-> 1, passes |-> 0]
          ELSE /\ result' = response
               /\ locals' = [pc |-> IF From(field_str, 9) = "" THEN "done" ELSE "step_loop",
                             rest |-> From(field_str, 9), i |-> 1, passes |-> 0]
    /\ UNCHANGED <<text, response, jobs>>

\* lines 525-605, one pass through the step loop: at the end of rest the
\* result is returned; a field step moves i past the dot and the name, a
\* subscript step past the closing bracket, whitespace is passed by one; a
\* step that finds nothing returns None, any other character ends the loop
ResolverStep ==
    /\ locals.pc = "step_loop"
    /\ \E rest \in {locals.rest}, i \in {locals.i}, cur \in {result} :
       \E field_name \in {MatchIdent(rest, i + 1)},
          bracket_end \in {Find(rest, "]", i + 1)} :
       \E index_str \in {IF bracket_end = 0 THEN ""
                         ELSE Strip(Sub(rest, i + 1, bracket_end - 1))} :
       \E step \in
              {CASE i > Len(rest) -> [i |-> i, result |-> cur, pc |-> "done"]
                 [] Ch(rest, i) = "." /\ field_name = "" ->
                       [i |-> i + 1, result |-> None, pc |-> "done"]
                 [] Ch(rest, i) = "." ->
                       [i |-> i + 1 + Len(field_name),
                        result |-> FieldStep(cur, field_name),
                        pc |-> IF cur.t = "dict" \/ HasAttr(cur, field_name)
                               THEN "step_loop" ELSE "done"]
                 [] Ch(rest, i) = "[" /\ bracket_end = 0 ->
                       [i |-> i + 1, result |-> None, pc |-> "done"]
                 [] Ch(rest, i) = "[" ->
                       [i |-> bracket_end + 1,
                        result |-> Subscript(cur, index_str),
                        pc |-> IF \/ cur.t = "dict"
                                  \/ /\ IsIntText(index_str)
                                     /\ cur.t = "str"
                                     /\ ~IsRaise(Subscript(cur, index_str))
                                  \/ /\ IsIntText(index_str)
                                     /\ cur.t = "list"
                                     /\ 0 <= py_index(IntValue(index_str))
                                     /\ py_index(IntValue(index_str)) < Len(cur.v)
                               THEN "step_loop" ELSE "done"]
                 [] Ch(rest, i) \in {" ", "\t"} ->
                       [i |-> i + 1, result |-> cur, pc |-> "step_loop"]
                 [] OTHER -> [i |-> i, result |-> cur, pc |-> "done"]} :
          /\ result' = step.result
          /\ locals' = [locals EXCEPT !.i = step.i, !.pc = step.pc, !.passes = @ + 1]
    /\ UNCHANGED <<op, text, response, jobs>>

NextLoops ==
    ParserEnter \/ ParserKey \/ ParserScan \/ ParserStore \/ ResolverEnter \/ ResolverStep

SpecLoops == InitLoops /\ [][NextLoops]_vars

-----------------------------------------------------------------------------
(* Properties of the evaluator *)

\* C1: for every expression text and response, _evaluate_result_expression
\* completes without raising and returns a mapping, never None.
C1_ReturnsMapping == op = "evaluate" => result.t = "dict"

C1_Witness == op = "evaluate" /\ text = "{a: 1" /\ result.t = "dict"

\* C2: the result is the default output {"magentoResponse": response} when
\* the text is empty or blank, when it is neither a conditional nor starts
\* with "{", when it is a conditional whose selected branch does not parse to
\* an object, and when it is a bare object that does not parse.
C2_DefaultOutput ==
    op = "evaluate" =>
        LET e == Strip(LStripChars(text, {"=", " ", "\t"}))
            m == IfMatch(e)
            blank == Strip(text) = ""
            selected == IF _evaluate_condition(m.condition_str, response).v
                        THEN m.then_obj_str ELSE m.else_obj_str
            default == VDict(<<"magentoResponse">>, <<response>>)
        IN  /\ blank => result = default
            /\ (~blank /\ ~m.ok /\ ~StartsWith(e, "{")) => result = default
            /\ (~blank /\ m.ok /\ _parse_feel_dict_literal(selected, response).v = None)
                   => result = default
            /\ (~blank /\ ~m.ok /\ StartsWith(e, "{")
                   /\ _parse_feel_dict_literal(e, response).v = None) => result = default

C2_Witness ==
    /\ op = "evaluate"
    /\ text = "if count(response.body) = 0 then { } else { status: \"full\" }"
    /\ Body(response) = VList(<<>>)
    /\ result = VDict(<<"magentoResponse">>, <<response>>)

\* C3: every expression with unbalanced braces, such as "{a: {b: 1}",
\* "{a: 1}}" and "{a: 1", evaluates to {"magentoResponse": response}.
C3_UnbalancedBraces ==
    (/\ op = "evaluate"
     /\ text \in {"{a: {b: 1}", "{a: 1}}", "{a: 1"}
                 \cup UNION {{Nest(i, j) : j \in (0..(MaxDepth + 1)) \ {i}} : i \in 1..MaxDepth})
        => result = VDict(<<"magentoResponse">>, <<response>>)

C5_EmptyGuard ==
    op = "evaluate" =>
        LET body == Body(response)
            no_data == HasKey(response, "body") /\ body \in {None, VList(<<>>)}
            data == body.t = "list" /\ body.v # <<>>
        IN  /\ \A t \in ObjectTexts, e \in ObjectTexts :
                   text = Conditional("response.body = null or count(response.body) = 0", t, e)
                       => /\ no_data => result = _parse_feel_dict_literal(t, response).v
                          /\ data => result = _parse_feel_dict_literal(e, response).v
            /\ (text = ListOrdersExpression /\ no_data)
                   => /\ result.t = "dict"
                      /\ DictGet(result, "recentOrders") = VList(<<>>)
                      /\ HasKey(result, "selectedOrderCandidate")
                      /\ DictGet(result, "selectedOrderCandidate") = None
                      /\ DictGet(result, "toolCallResult").t = "dict"
                      /\ DictGet(DictGet(result, "toolCallResult"), "status") = VStr("no_orders")
            /\ (text = ListOrdersExpression /\ data)
                   => /\ result.t = "dict"
                      /\ result.k = <<"recentOrders", "selectedOrderCandidate", "toolCallResult">>
                      /\ DictGet(result, "recentOrders") = body

C5_Witness ==
    /\ op = "evaluate"
    /\ text = ListOrdersExpression
    /\ Body(response) = OrderBody
    /\ DictGet(result, "selectedOrderCandidate") = OrderBody.v[1]
    /\ DictGet(DictGet(result, "toolCallResult"), "status") = VStr("orders_found")

\* C6: an integer subscript on a sequence of length n is 1-based: subscript
\* k resolves to the k-th element when 1 <= k <= n and to None, without
\* raising, when k = 0, k < 0 or k > n.
C6_OneBasedSubscript ==
    op = "field_access" =>
        \A k \in Subscripts :
            (text = SubscriptPath(k) /\ Body(response).t = "list")
                => result = IF 1 <= k /\ k <= Len(Body(response).v)
                            THEN Body(response).v[k] ELSE None

C6_Witness ==
    /\ op = "field_access"
    /\ text = SubscriptPath(2)
    /\ Body(response) = StrBody(3)
    /\ result = VStr("y")

\* C7 as stated: response.body[1].items[1].product_name resolved against
\* {"body": [{"items": [{"product_name": "A"}, {"product_name": "B"}]}]}
\* yields "B".
C7_YieldsSecondItem ==
    (op = "field_access" /\ text = ProductPath /\ response = BodyOnly(ProductBody))
        => result = VStr("B")

\* C7: response.body[1].items[1].product_name resolved against
\* {"body": [{"items": [{"product_name": "A"}, {"product_name": "B"}]}]}
\* yields "A", the product name of the first item; "B" is what
\* response.body[1].items[2].product_name yields.
C7_YieldsFirstItem ==
    (op = "field_access" /\ response = BodyOnly(ProductBody))
        => /\ text = ProductPath => result = VStr("A")
           /\ text = "response.body[1].items[2].product_name" => result = VStr("B")

C7_Witness ==
    /\ op = "field_access"
    /\ text = ProductPath
    /\ response = BodyOnly(ProductBody)
    /\ result = VStr("A")

\* C8: { "k": 1, "nested": { "j": response.body } } evaluated against
\* {"body": [1, 2]} produces {"k": 1, "nested": {"j": [1, 2]}}.
C8_QuotedKeys ==
    (/\ op = "evaluate"
     /\ text = "{ \"k\": 1, \"nested\": { \"j\": response.body } }"
     /\ response = BodyOnly(VList(<<VInt(1), VInt(2)>>)))
        => result = VDict(<<"k", "nested">>,
                          <<VInt(1), VDict(<<"j">>, <<VList(<<VInt(1), VInt(2)>>)>>)>>)

RECURSIVE C9_Joined(_, _, _)
\* the string forms of the values of the operands from the n-th on, null as
\* the empty string, joined with no separator
C9_Joined(texts, n, resp) ==
    IF n > Len(texts) THEN ""
    ELSE LET value == _evaluate_feel_value(texts[n], resp).v
         IN  (IF value = None THEN "" ELSE PyStr(value)) \o C9_Joined(texts, n + 1, resp)

\* C9: two or more operands separated by top-level "+" evaluate to the
\* string that joins, left to right and with no separator, the string form
\* of each operand's value, null counting as the empty string; never to a
\* sum.
C9_Concatenation ==
    op = "value" =>
        /\ \A texts \in OperandSeqs :
               text = JoinPlus(texts, 1) => result = VStr(C9_Joined(texts, 1, response))
        /\ text = "\"a\" + null + \"b\"" => result = VStr("ab")
        /\ text = "1 + 2" => result = VStr("12")

\* C10: count(x), for x a field path, is 0 when x resolves to null, the
\* number of elements when it resolves to a sequence and the number of
\* characters when it resolves to a string, as a value expression and
\* inside a condition alike.
C10_Count ==
    \A path \in CountPaths :
        LET x == _evaluate_field_access(path, response)
            n == IF x = None THEN 0 ELSE Len(x.v)
        IN  (x = None \/ x.t \in {"list", "str"})
                => /\ (op = "value" /\ text = "count(" \o path \o ")") => result = VInt(n)
                   /\ \A k \in 0..MaxBody :
                          (op = "condition" /\ text = "count(" \o path \o ") = " \o IntText(k))
                              => result = VBool(k = n)

C12_ResponseUnchanged == [][op' = "evaluate" => response' = response]_vars

\* C13: when several evaluate calls run interleaved, each call returns
\* exactly the output it returns when run alone on its own expression text
\* and response, whatever the interleaving.
C13_Isolation ==
    \A j \in DOMAIN jobs :
        jobs[j].pc = "returned"
            => jobs[j].result = _evaluate_result_expression(jobs[j].text, jobs[j].given).v

\* job 2 ran from call to return while job 1, called with another response,
\* stood between its condition (which emptied its own body) and its return
C13_Witness ==
    /\ op = "jobs"
    /\ jobs[1].pc = "condition"
    /\ jobs[1].given = Response(StrBody(2))
    /\ jobs[1].response = Response(StrBody(0))
    /\ jobs[2].pc = "returned"
    /\ jobs[2].text = ScenarioExpression
    /\ jobs[2].given = Response(StrBody(2))
    /\ jobs[2].result = VDict(<<"status", "first">>, <<VStr("full"), VStr("x")>>)

\* C14: the conditional form is recognised whatever the letter case of if,
\* then and else and whatever the whitespace (none, blanks, tabs, newlines)
\* between a keyword and the object next to it: every such spelling of a
\* conditional gives what its plain spelling gives.
C14_KeywordsAndWhitespace ==
    (op = "evaluate" /\ text \in KeywordForms)
        => result = _evaluate_result_expression(
                        KeywordForm(<<"if", "then", "else">>, " "), response).v

\* C15: once a field step of the Field-Path Resolver looks up a key that the
\* current mapping lacks, the result is null for every remaining step,
\* field or subscript, and the resolver returns null without raising.
C15_AbsentKeyStaysNull ==
    op = "field_access" =>
        /\ (StartsWith(text, "response.missing") /\ ~HasKey(response, "missing"))
               => result = None
        /\ (/\ StartsWith(text, "response.body.absent")
            /\ HasKey(response, "body")
            /\ Body(response).t = "dict"
            /\ ~HasKey(Body(response), "absent"))
               => result = None

\* the key "absent" is looked up in the mapping that is the body, and a
\* subscript, a field and another subscript follow
C15_Witness ==
    /\ op = "field_access"
    /\ text = "response.body.absent.name[1].items[2]"
    /\ Body(response) = VDict(<<"name">>, <<VStr("abc")>>)
    /\ result = None

\* C16: a path whose root token is not exactly response resolves to null,
\* also when the root identifier only begins with response (responses.body,
\* response_data.body): the resolver returns neither the response nor a part
\* of it.
C16_RootMustBeResponse ==
    (/\ op = "field_access"
     /\ text \in {"responses.body", "response_data.body", "resp.body", "Response.body",
                  "body[1]"})
        => result = None

\* C17: on a mapping a subscript step looks up the bracket content as a key,
\* with no offset, integer-like or not: against the mapping {"1": "v",
\* "name": "w"} the step [1] yields "v" and the step [name] yields "w".
C17_MappingSubscript ==
    (/\ op = "field_access"
     /\ Body(response) = VDict(<<"1", "name">>, <<VStr("v"), VStr("w")>>))
        => /\ text = "response.body[1]" => result = VStr("v")
           /\ text = "response.body[name]" => result = VStr("w")

\* C18: on a string of length n an integer subscript k yields the character
\* at 0-based offset k when 0 <= k < n and null for every other k (k >= n
\* or k negative); the resolver raises for no integer k.
C18_StringSubscript ==
    (op = "field_access" /\ HasKey(response, "body") /\ Body(response).t = "str")
        => \A k \in Subscripts :
               text = SubscriptPath(k)
                   => result = IF 0 <= k /\ k < Len(Body(response).v)
                               THEN VStr(Ch(Body(response).v, k + 1))
                               ELSE None

\* C19: inside a condition a field path operand has the value the Field-Path
\* Resolver gives for the path, multi-step paths and 1-based subscripts
\* included: response.body[1] = "x" is true exactly when the resolver's
\* response.body[1] is "x" (the first element of body), and
\* response.body.status = "ok" is true exactly when the resolver's
\* response.body.status is "ok" (body is the mapping {"status": "ok"}).
C19_ConditionOperand ==
    (op = "condition" /\ HasKey(response, "body"))
        => /\ text = "response.body[1] = \"x\""
                  => result = VBool(_evaluate_field_access("response.body[1]", response)
                                        = VStr("x"))
           /\ text = "response.body.status = \"ok\""
                  => result = VBool(_evaluate_field_access("response.body.status", response)
                                        = VStr("ok"))

\* C20: a value expression that is a numeric literal evaluates to that
\* number, integer or decimal float: 42 is 42, -7 is -7 and 3.14 is 3.14.
C20_NumericLiteral ==
    op = "value" =>
        /\ text = "42" => result = VInt(42)
        /\ text = "-7" => result = VInt(0 - 7)
        /\ text = "3.14" => result = VFloat("3.14")
        /\ text = "0.5" => result = VFloat("0.5")
        /\ text = "-2.5" => result = VFloat("-2.5")

\* C21: an array literal evaluates to the sequence of the values of its
\* elements, each evaluated as a value expression of its own (keyword, field
\* path, function call, literal): [null, true] is [null, true],
\* [response.body[1]] holds the first element of body, [] is empty.
C21_ArrayElements ==
    op = "value" =>
        /\ text = "[]" => result = VList(<<>>)
        /\ text = "[1, 2]" => result = VList(<<VInt(1), VInt(2)>>)
        /\ text = "[\"a\", 2]" => result = VList(<<VStr("a"), VInt(2)>>)
        /\ text = "[null, true]" => result = VList(<<None, VBool(TRUE)>>)
        /\ text = "[response.body[1]]"
               => result = VList(<<_evaluate_field_access("response.body[1]", response)>>)
        /\ text = "[count(response.body)]"
               => result = VList(<<_evaluate_feel_value("count(response.body)", response).v>>)

\* C22: a double-quoted string literal whose + characters all lie inside
\* the quotes is a literal, not a concatenation: it evaluates to its
\* interior text as it stands, whatever else the interior holds ("a+b" is
\* the text a+b, "v1.0+beta" the text v1.0+beta).
C22_PlusInsideQuotes ==
    op = "value" =>
        \A interior \in {"a+b", "v1.0+beta", "a[1]+b", "+"} :
            text = "\"" \o interior \o "\"" => result = VStr(interior)

\* C23: count(x) and string(x) apply to the evaluated argument: a field
\* path is resolved by the Field-Path Resolver and any other argument is
\* evaluated as a value expression, so string(5) is "5", count("abc") is 3,
\* count([1,2]) is 2 and count(response.body) counts the resolved body.
C23_BuiltinArgument ==
    op = "value" =>
        /\ text = "string(5)" => result = VStr("5")
        /\ text = "string(true)" => result = VStr(PyStr(VBool(TRUE)))
        /\ text = "count(\"abc\")" => result = VInt(3)
        /\ text = "count([1,2])" => result = VInt(2)
        /\ text = "count(response.body)"
               => result = VInt(PyLenOrZero(_evaluate_field_access("response.body", response)))
        /\ text = "string(response.status)"
               => result = VStr(PyStr(_evaluate_field_access("response.status", response)))

\* C24: a value expression that is none of object, array, quoted string,
\* keyword, concatenation, function call, field or subscript access and
\* numeric literal is returned as its raw trimmed text, unevaluated: foo is
\* the text foo, 2 * 3 the text 2 * 3, response the text response.
C24_RawText ==
    op = "value" =>
        \A raw \in {"foo", "2 * 3", "response", "1 - 2", "a b"} :
            text \in {raw, " " \o raw \o " "} => result = VStr(raw)

\* C25: in the Object-Literal Parser the value of a key extends to the next
\* comma or closing brace at nesting depth 0 of {} and of [] and outside any
\* double-quoted string: a value that holds commas, braces or brackets
\* inside quotes or inside a nested array or object is taken whole, and the
\* key after it is read; {a: "x, y}", b: [1, 2], c: {d: 1}} has exactly the
\* keys a, b, c with the values "x, y}", [1, 2] and {d: 1}.
C25_ValueSpan ==
    op = "evaluate" =>
        /\ \A value_str \in SpanValues :
               text = "{a: " \o value_str \o ", b: 1}"
                   => result = VDict(<<"a", "b">>,
                                     <<_evaluate_feel_value(value_str, response).v, VInt(1)>>)
        /\ text = "{a: \"x, y}\", b: [1, 2], c: {d: 1}}"
               => result = VDict(<<"a", "b", "c">>,
                                 <<VStr("x, y}"), VList(<<VInt(1), VInt(2)>>),
                                   VDict(<<"d">>, <<VInt(1)>>)>>)

\* the value of a is a quoted text with a comma and a closing brace in it,
\* and the key b after it is read
C25_Witness ==
    /\ op = "evaluate"
    /\ text = "{a: \"x, y}\", b: 1}"
    /\ result = VDict(<<"a", "b">>, <<VStr("x, y}"), VInt(1)>>)

\* C26: the boolean of a condition depends only on the operands the
\* condition mentions: response.status = 200 is true for every response
\* whose status is 200, whatever its body is (null, sequence, mapping,
\* string, number), and 1 = 1 is true for every response.
C26_OnlyMentionedOperands ==
    (op = "condition" /\ response.t = "dict")
        => /\ text = "response.status = 200"
                  => result = VBool(HasKey(response, "status")
                                        /\ DictGet(response, "status") = VInt(200))
           /\ text = "1 = 1" => result = VBool(TRUE)

\* C27: a field step applied to a current value that is not a mapping (a
\* sequence, string, number or boolean) yields null: response.body.count,
\* response.body.upper, response.status.real and response.status.imag
\* resolve to null for every response whose body and status are not
\* mappings, and no path ever resolves to a method of a built-in type.
C27_NonMappingFieldNull ==
    op = "field_access"
        => /\ result.t # "method"
           /\ (text \in {"response.body.count", "response.body.upper"}
                   /\ Body(response).t # "dict") => result = None
           /\ text \in {"response.status.real", "response.status.imag"} => result = None

\* C28: in a condition only the keyword token null denotes the null value:
\* response.body = "null" is true exactly when body is the string "null",
\* and response.nullable = 1 compares the field named nullable (responses
\* whose log line does not raise).
C28_NullKeywordOnly ==
    (op = "condition" /\ ~LogLineRaises(response))
        => /\ text = "response.body = \"null\""
                  => result = VBool(Body(response) = VStr("null"))
           /\ (text = "response.nullable = 1" /\ HasKey(response, "nullable"))
                  => result = VBool(DictGet(response, "nullable") = VInt(1))

\* C29: a single = between two operands is an equality comparison whether or
\* not whitespace surrounds it: count(response.body)=0, with whitespace on
\* one side only or on neither, returns what count(response.body) = 0
\* returns for the same response, and 1=1 is true (responses whose log line
\* does not raise).
C29_EqualsWithoutSpaces ==
    (op = "condition" /\ ~LogLineRaises(response))
        => /\ text \in {"count(response.body)=0", "count(response.body) =0",
                         "count(response.body)= 0"}
                  => result = VBool(_evaluate_condition("count(response.body) = 0",
                                                        response).v)
           /\ text = "1=1" => result = VBool(TRUE)

\* C30: the object-literal parser and the field-path resolver terminate on
\* every text: every pass of the parser's key loop and of its value scan,
\* and of the resolver's step loop, either strictly advances the position i
\* or leaves the loop (a whole pass of the key loop, from its head to the
\* skipped commas, advances i too); i never passes the end of the text by
\* more than one, and a call makes at most 2 * Len(text) passes.
C30_LoopsTerminate ==
    /\ [][/\ locals.pc = "key_loop" => (locals'.pc = "done" \/ locals'.i > locals.i)
          /\ locals.pc = "value_scan" => (locals'.pc = "store" \/ locals'.i > locals.i)
          /\ locals.pc = "store" => (locals'.pc = "key_loop" /\ locals'.i > locals.i_before)
          /\ locals.pc = "step_loop" => (locals'.pc = "done" \/ locals'.i > locals.i)]_vars
    /\ [](locals.pc \in {"key_loop", "value_scan", "store"}
              => locals.i <= Len(locals.content) + 1)
    /\ [](locals.pc = "step_loop" => locals.i <= Len(locals.rest) + 1)
    /\ [](locals.pc # "called" => locals.passes <= 2 * Len(text))

C30_Witness ==
    /\ op = "parse"
    /\ text = "{a: \"x, y}\", b: [1, 2], c: {d: 1}}"
    /\ locals.pc = "done"
    /\ locals.i = Len(locals.content) + 1
    /\ locals.passes > Len(locals.content) \div 2
    /\ result.t = "dict"
    /\ result.k = <<"a", "b", "c">>

====
